---- MODULE Spec2Model ----
(***************************************************************************)
(* llama.cpp OpenAI-compatible proxy: the request pipeline (app/main.py),   *)
(* the API-key authenticator (app/auth.py), the sliding-window rate limiter *)
(* (app/rate_limit.py), the metrics registry (app/metrics.py) and the model *)
(* router (app/routing.py).                                                 *)
(*                                                                          *)
(* Strings that the code inspects are sequences of atoms: a header value is *)
(* a sequence of words and single spaces, a path is its sequence of         *)
(* segments.  An optional value is <<>> (None) or <<v>>.  Time is the       *)
(* monotonic clock in ticks of 1/TicksPerSecond seconds.                    *)
(***************************************************************************)
EXTENDS Integers, Sequences, FiniteSets, TLC

VARIABLES
    settings,          \* app.config.settings: max_retries, rate_limit_rpm
    auth_keys,         \* ApiKeyAuth._keys: token -> client id
    upstreams,         \* ModelRouter._upstreams: model -> base url
    limit_per_minute,  \* SlidingWindowRateLimiter.limit_per_minute
    buckets,           \* SlidingWindowRateLimiter._buckets: client id -> deque of timestamps
    metrics,           \* MetricsRegistry
    now,               \* time.monotonic(), in ticks
    pc,                \* per request task: where it is suspended
    req,               \* per request task: the inbound request line and x-request-id
    ctx,               \* per request task: locals of request_middleware and of the handler
    call,              \* per request task: locals of the *_with_retry call in progress
    handles,           \* per request task: the httpx client / response it has opened
    resp,              \* per request task: the response handed to the client
    hist               \* history: requests accepted, responses returned, upstream calls
                       \* made, clock advances, direct recording operations, and the
                       \* decisions of direct check calls

vars == <<settings, auth_keys, upstreams, limit_per_minute, buckets, metrics, now,
          pc, req, ctx, call, handles, resp, hist>>

-----------------------------------------------------------------------------
(* Bounds of the model *)

MaxRequests == 2        \* requests accepted over a run of the pipeline (Spec)
MaxCalls == 1           \* requests accepted over a run of the upstream client (SpecUpstream)
MaxAdvances == 1        \* times the clock advances over a run of Spec
MaxChecks == 4          \* direct calls of RateLimiter.check over a run (SpecLimiter)
MaxTicks == 3           \* times the clock advances over a run of SpecLimiter
MaxRecords == 4         \* recording operations over a run of the registry (SpecMetrics)
MaxArrivals == 3        \* requests accepted over a run of two request tasks (SpecConcurrent)
MaxWaits == 2           \* times the clock advances over a run of SpecConcurrent

Workers == {"w1", "w2"}     \* the request tasks
MainWorkers == {"w1"}       \* the tasks that take requests: one request at a time

-----------------------------------------------------------------------------
(* Generic helpers *)

None == <<>>
Some(v) == <<v>>

Max(a, b) == IF a >= b THEN a ELSE b

\* d[k] += 1 on a defaultdict(int)
Inc(d, k) == IF k \in DOMAIN d THEN [d EXCEPT ![k] = @ + 1] ELSE d @@ (k :> 1)

\* d[k] += x on a defaultdict(float)
Add(d, k, x) == IF k \in DOMAIN d THEN [d EXCEPT ![k] = @ + x] ELSE d @@ (k :> x)

\* d.get(k, 0) for reading a counter that may not exist yet
Get0(d, k) == IF k \in DOMAIN d THEN d[k] ELSE 0

EmptyMap == [k \in {} |-> 0]

RECURSIVE LStrip(_)
LStrip(s) == IF s # <<>> /\ s[1] = " " THEN LStrip(Tail(s)) ELSE s

RECURSIVE RStrip(_)
RStrip(s) == IF s # <<>> /\ s[Len(s)] = " " THEN RStrip(SubSeq(s, 1, Len(s) - 1)) ELSE s

\* str.strip()
Strip(s) == RStrip(LStrip(s))

RECURSIVE SumOver(_, _)
SumOver(f, S) == IF S = {} THEN 0
                 ELSE LET k == CHOOSE x \in S : TRUE IN f[k] + SumOver(f, S \ {k})

\* the sum of the values of a counter family
Total(d) == SumOver(d, DOMAIN d)

-----------------------------------------------------------------------------
(* app/config.py *)

TicksPerSecond == 2     \* resolution of the modelled monotonic clock

\* the configurations a run may start in: RATE_LIMIT_RPM, the keys, the model map
max_retries == 2        \* MAX_RETRIES
RpmChoices == {1, 2}

Tokens == {<<"k1">>, <<"k2">>}
KeyTable == (<<"k1">> :> "client-1") @@ (<<"k2">> :> "client-2")
KeyTables == {[k \in {} |-> ""], KeyTable}

\* ModelRouter.__init__ reads settings.model_upstreams, a field that Settings of
\* app/config.py does not declare; the map is taken as the router holds it
ModelMap == ("m1" :> "http://u1") @@ ("m2" :> "http://u2")
ModelMaps == {[k \in {} |-> ""], ModelMap}

llama_cpp_base_url == "http://127.0.0.1:8080"

-----------------------------------------------------------------------------
(* app/rate_limit.py *)

window_s == 60
WindowTicks == window_s * TicksPerSecond

RateLimitDecision(allowed, remaining, retry_after_s) ==
    [allowed |-> allowed, remaining |-> remaining, retry_after_s |-> retry_after_s]

\* self._buckets[client_id] on a defaultdict(deque)
BucketOf(bs, client_id) == IF client_id \in DOMAIN bs THEN bs[client_id] ELSE <<>>

\* pruning that drops one stale timestamp at most (`if` for `while`)
Prune_pops_one(bucket, window_start) ==
    IF bucket # <<>> /\ bucket[1] < window_start THEN Tail(bucket) ELSE bucket

\* while bucket and bucket[0] < window_start: bucket.popleft()
RECURSIVE Prune(_, _)
Prune(bucket, window_start) ==
    IF bucket # <<>> /\ bucket[1] < window_start
    THEN Prune(Tail(bucket), window_start)
    ELSE bucket

\* int(self.window_s - (now - bucket[0])) for a non-negative difference in ticks
RetryAfter(bucket, t) == Max(1, (WindowTicks - (t - bucket[1])) \div TicksPerSecond)

\* check that appends the timestamp of a call it refuses
Check_appends_on_refusal(bs, limit, client_id, t) ==
    LET pruned == Prune(BucketOf(bs, client_id), t - WindowTicks) IN
    IF Len(pruned) >= limit
    THEN [decision |-> RateLimitDecision(FALSE, 0, RetryAfter(pruned, t)),
          bucket |-> Append(pruned, t)]
    ELSE [decision |-> RateLimitDecision(TRUE, limit - (Len(pruned) + 1), 0),
          bucket |-> Append(pruned, t)]

\* check with the size test off by one (> for >=): it admits limit + 1 calls
Check_admits_one_more(bs, limit, client_id, t) ==
    LET pruned == Prune(BucketOf(bs, client_id), t - WindowTicks) IN
    IF Len(pruned) > limit
    THEN [decision |-> RateLimitDecision(FALSE, 0, RetryAfter(pruned, t)),
          bucket |-> pruned]
    ELSE [decision |-> RateLimitDecision(TRUE, limit - (Len(pruned) + 1), 0),
          bucket |-> Append(pruned, t)]

\* check whose append overwrites the newest timestamp, as a lost update would
Check_overwrites_newest(bs, limit, client_id, t) ==
    LET pruned == Prune(BucketOf(bs, client_id), t - WindowTicks) IN
    IF Len(pruned) >= limit
    THEN [decision |-> RateLimitDecision(FALSE, 0, RetryAfter(pruned, t)),
          bucket |-> pruned]
    ELSE [decision |-> RateLimitDecision(TRUE, limit - (Len(pruned) + 1), 0),
          bucket |-> IF pruned = <<>> THEN <<t>>
                     ELSE Append(SubSeq(pruned, 1, Len(pruned) - 1), t)]

\* SlidingWindowRateLimiter.check: the decision and the bucket it leaves behind
Check(bs, limit, client_id, t) ==
    LET pruned == Prune(BucketOf(bs, client_id), t - WindowTicks) IN
    IF Len(pruned) >= limit
    THEN [decision |-> RateLimitDecision(FALSE, 0, RetryAfter(pruned, t)),
          bucket |-> pruned]
    ELSE [decision |-> RateLimitDecision(TRUE, limit - (Len(pruned) + 1), 0),
          bucket |-> Append(pruned, t)]

\* the bucket table after check(client_id): the entry exists from then on
BucketsAfter(bs, client_id, bucket) ==
    IF client_id \in DOMAIN bs THEN [bs EXCEPT ![client_id] = bucket]
    ELSE bs @@ (client_id :> bucket)

-----------------------------------------------------------------------------
(* app/metrics.py *)

MetricsInit ==
    [requests_total |-> EmptyMap,
     request_latency_sum |-> EmptyMap,
     request_latency_count |-> EmptyMap,
     upstream_retries_total |-> EmptyMap,
     upstream_latency_sum |-> EmptyMap,
     upstream_latency_count |-> EmptyMap,
     upstream_errors_total |-> EmptyMap,
     rate_limited_total |-> 0]

\* record_request that counts successful requests only
record_request_skips_errors(m, route, method, status, latency_s) ==
    IF status >= 400 THEN m
    ELSE [m EXCEPT !.requests_total = Inc(@, <<route, method, status>>),
                   !.request_latency_sum = Add(@, <<route, method>>, latency_s),
                   !.request_latency_count = Inc(@, <<route, method>>)]

\* record_request that leaves request_latency_count behind
record_request_count_behind(m, route, method, status, latency_s) ==
    [m EXCEPT !.requests_total = Inc(@, <<route, method, status>>),
              !.request_latency_sum = Add(@, <<route, method>>, latency_s)]

record_request(m, route, method, status, latency_s) ==
    [m EXCEPT !.requests_total = Inc(@, <<route, method, status>>),
              !.request_latency_sum = Add(@, <<route, method>>, latency_s),
              !.request_latency_count = Inc(@, <<route, method>>)]

\* record_upstream_retry that forgets the increment
record_upstream_retry_lost(m, route) == m

record_upstream_retry(m, route) ==
    [m EXCEPT !.upstream_retries_total = Inc(@, route)]

\* record_upstream_latency that adds to the sum and forgets the count
record_upstream_latency_sum_only(m, route, latency_s) ==
    [m EXCEPT !.upstream_latency_sum = Add(@, route, latency_s)]

record_upstream_latency(m, route, latency_s) ==
    [m EXCEPT !.upstream_latency_sum = Add(@, route, latency_s),
              !.upstream_latency_count = Inc(@, route)]

\* record_upstream_error that forgets the increment
record_upstream_error_lost(m, route) == m

record_upstream_error(m, route) ==
    [m EXCEPT !.upstream_errors_total = Inc(@, route)]

\* record_rate_limited that forgets the increment
record_rate_limited_lost(m) == m

record_rate_limited(m) ==
    [m EXCEPT !.rate_limited_total = @ + 1]

-----------------------------------------------------------------------------
(* app/auth.py *)

\* ApiKeyAuth.enabled
AuthEnabled(keys) == DOMAIN keys # {}

\* authorization.startswith("Bearer ")
StartsWithBearer(s) == Len(s) >= 2 /\ s[1] = "Bearer" /\ s[2] = " "

\* authorization.split(" ", 1)[1] when the string holds a space
RECURSIVE AfterFirstSpace(_)
AfterFirstSpace(s) ==
    IF s = <<>> THEN <<>>
    ELSE IF s[1] = " " THEN Tail(s) ELSE AfterFirstSpace(Tail(s))

\* authenticate that checks the scheme of the header but never looks the token up
authenticate_any_token(keys, authorization) ==
    IF ~AuthEnabled(keys)
    THEN [ok |-> TRUE, client_id |-> "anonymous", status |-> 0, detail |-> ""]
    ELSE IF authorization = None \/ authorization[1] = <<>>
            \/ ~StartsWithBearer(authorization[1])
    THEN [ok |-> FALSE, client_id |-> "", status |-> 401,
          detail |-> "Missing or invalid Authorization header"]
    ELSE [ok |-> TRUE, client_id |-> "client-1", status |-> 0, detail |-> ""]

\* ApiKeyAuth.authenticate: an identity, or the HTTPException it raises
authenticate(keys, authorization) ==
    IF ~AuthEnabled(keys)
    THEN [ok |-> TRUE, client_id |-> "anonymous", status |-> 0, detail |-> ""]
    ELSE IF authorization = None \/ authorization[1] = <<>>
            \/ ~StartsWithBearer(authorization[1])
    THEN [ok |-> FALSE, client_id |-> "", status |-> 401,
          detail |-> "Missing or invalid Authorization header"]
    ELSE LET token == Strip(AfterFirstSpace(authorization[1])) IN
         IF token \notin DOMAIN keys
         THEN [ok |-> FALSE, client_id |-> "", status |-> 401, detail |-> "Invalid API key"]
         ELSE [ok |-> TRUE, client_id |-> keys[token], status |-> 0, detail |-> ""]

-----------------------------------------------------------------------------
(* app/routing.py *)

\* ModelRouter.has_model_map
has_model_map(ups) == DOMAIN ups # {}

\* sorted(...): the keys of the model map in ascending order ("m1" < "m2")
ModelOrder == <<"m1", "m2">>

RECURSIVE Filter(_, _)
Filter(s, S) == IF s = <<>> THEN <<>>
                ELSE IF s[1] \in S THEN <<s[1]>> \o Filter(Tail(s), S)
                ELSE Filter(Tail(s), S)

\* ModelRouter.configured_models
configured_models(ups) == Filter(ModelOrder, DOMAIN ups)

\* ModelRouter.configured_upstreams
configured_upstreams(ups) ==
    [i \in 1..Len(configured_models(ups)) |->
        <<configured_models(ups)[i], ups[configured_models(ups)[i]]>>]

\* upstream_for_model that sends a model the map does not hold to the default upstream
upstream_for_model_falls_back(ups, model) ==
    IF has_model_map(ups) /\ model \in DOMAIN ups
    THEN [ok |-> TRUE, base_url |-> ups[model], status |-> 0, available |-> <<>>]
    ELSE [ok |-> TRUE, base_url |-> llama_cpp_base_url, status |-> 0, available |-> <<>>]

\* ModelRouter.upstream_for_model: a base url, or the HTTPException it raises
upstream_for_model(ups, model) ==
    IF ~has_model_map(ups)
    THEN [ok |-> TRUE, base_url |-> llama_cpp_base_url, status |-> 0, available |-> <<>>]
    ELSE IF (IF model \in DOMAIN ups THEN ups[model] = "" ELSE TRUE)
    THEN \* self._upstreams.get(model) is None or empty
         [ok |-> FALSE, base_url |-> "", status |-> 400,
          available |-> configured_models(ups)]
    ELSE [ok |-> TRUE, base_url |-> ups[model], status |-> 0, available |-> <<>>]

-----------------------------------------------------------------------------
(* Requests, responses and the upstream *)

ModelsPath == <<"v1", "models">>
ChatPath == <<"v1", "chat", "completions">>
CompletionsPath == <<"v1", "completions">>
EmbeddingsPath == <<"v1", "embeddings">>

Routes == {<<"health">>, <<"metrics">>, <<"v1">>, ModelsPath, ChatPath, CompletionsPath,
           EmbeddingsPath}
Methods == {"GET", "POST", "OPTIONS"}

\* the request lines a client sends: every route with the method its endpoint takes,
\* and some with another method
RequestLines ==
    {<<"GET", <<"health">>>>, <<"GET", <<"metrics">>>>, <<"GET", <<"v1">>>>,
     <<"GET", ModelsPath>>, <<"POST", ChatPath>>, <<"POST", CompletionsPath>>,
     <<"POST", EmbeddingsPath>>, <<"POST", <<"health">>>>, <<"GET", EmbeddingsPath>>,
     <<"OPTIONS", <<"health">>>>, <<"OPTIONS", ChatPath>>}

AuthHeaders == {None, Some(<<"Bearer", " ", "k1">>),
                Some(<<"Bearer", " ", " ", "k2", " ">>), Some(<<"Bearer", " ", "zz">>),
                Some(<<"Basic", " ", "k1">>), Some(<<"Bearer">>)}
RequestIdHeaders == {None, Some(<<" ">>), Some(<<" ", "a", " ">>)}
Peers == {Some("10.0.0.1")}

Requests == {r \in [route : Routes, method : Methods, authorization : AuthHeaders,
                    x_request_id : RequestIdHeaders, peer : Peers] :
                <<r.method, r.route>> \in RequestLines}

\* request bodies of the POST endpoints: the fields the schemas look at
Bodies == [model : {None, Some("m1"), Some("zz")},
           content : {"missing", "empty", "some"},
           stream : BOOLEAN]

\* a retriable set that also takes 400 for a status to retry
RETRIABLE_with_400 == {400, 429, 500, 502, 503, 504}

RETRIABLE_STATUS_CODES == {429, 500, 502, 503, 504}

\* what one upstream attempt can end in
UpstreamStatuses == {200, 400, 503}
UpstreamContents == {"B1", "B2"}
Outcomes == [kind : {"response"}, status : UpstreamStatuses, content : UpstreamContents]
            \cup [kind : {"timeout", "request_error", "unexpected"},
                  status : {0}, content : {""}]

NoOutcome == [kind |-> "none", status |-> 0, content |-> ""]
NoResult == [next |-> "none", status |-> 0, text |-> ""]
NoCall == [kind |-> "none", base_url |-> "", path |-> <<>>, attempt |-> 0,
           x_request_id |-> <<>>, started |-> 0, ncalls |-> 0, retries |-> 0,
           latencies |-> 0, answer |-> NoOutcome, result |-> NoResult]
NoHandles == [clients |-> 0, responses |-> 0]
NoOut == [kind |-> "none", status |-> 0, body |-> "", text |-> "", data |-> <<>>,
          stream |-> FALSE]
NoCtx == [started |-> 0, request_id |-> <<>>, rate_remaining |-> 0, handled |-> FALSE,
          models_i |-> 0, data |-> <<>>, out |-> NoOut]
NoReq == [route |-> <<>>, method |-> "", x_request_id |-> None]
NoResp == [status |-> 0, body |-> "", text |-> "", data |-> <<>>, stream |-> FALSE,
           x_request_id |-> None, x_ratelimit_limit |-> None,
           x_ratelimit_remaining |-> None, retry_after |-> None]

\* a handler outcome that is a response
OutResponse(status, body, text, data, stream) ==
    [kind |-> "response", status |-> status, body |-> body, text |-> text, data |-> data,
     stream |-> stream]

\* a handler outcome that is an exception other than HTTPException
OutException == [NoOut EXCEPT !.kind = "exception"]

-----------------------------------------------------------------------------
(* app/main.py: helpers *)

\* uuid.uuid4().hex: a token no inbound header carries
Uuid(n) == <<"uuid-" \o ToString(n)>>

\* _request_id that tests the trimmed header but returns it untrimmed
_request_id_untrimmed(x_request_id, n) ==
    IF x_request_id # None /\ x_request_id[1] # <<>> /\ Strip(x_request_id[1]) # <<>>
    THEN x_request_id[1]
    ELSE Uuid(n)

\* _request_id
_request_id(x_request_id, n) ==
    IF x_request_id # None /\ x_request_id[1] # <<>> /\ Strip(x_request_id[1]) # <<>>
    THEN Strip(x_request_id[1])
    ELSE Uuid(n)

\* _client_ip
_client_ip(peer) == IF peer # None THEN peer[1] ELSE "unknown"

\* _proxy_headers: the x-request-id sent to the upstream
_proxy_headers(request_id) == request_id

\* a prefix test without the trailing slash: route.startswith("/v1")
StartsWithV1_no_slash(route) == Len(route) >= 1 /\ route[1] = "v1"

\* route.startswith("/v1/")
StartsWithV1(route) == Len(route) >= 2 /\ route[1] = "v1"

\* route.startswith("/v1/") and method != "OPTIONS"
AuthClass(route, method) == StartsWithV1(route) /\ method # "OPTIONS"

\* a finalization that leaves the rate-limit headers off error responses
Finalized_errors_bare(out, route, method, request_id, rate_remaining) ==
    [status |-> out.status, body |-> out.body, text |-> out.text, data |-> out.data,
     stream |-> out.stream,
     x_request_id |-> Some(request_id),
     x_ratelimit_limit |->
        IF AuthClass(route, method) /\ out.status < 400
        THEN Some(settings.rate_limit_rpm) ELSE None,
     x_ratelimit_remaining |->
        IF AuthClass(route, method) /\ out.status < 400
        THEN Some(Max(0, rate_remaining)) ELSE None,
     retry_after |-> None]

\* lines 281-285 of request_middleware: the headers set on every response it finalizes
Finalized(out, route, method, request_id, rate_remaining) ==
    [status |-> out.status, body |-> out.body, text |-> out.text, data |-> out.data,
     stream |-> out.stream,
     x_request_id |-> Some(request_id),
     x_ratelimit_limit |->
        IF AuthClass(route, method) THEN Some(settings.rate_limit_rpm) ELSE None,
     x_ratelimit_remaining |->
        IF AuthClass(route, method) THEN Some(Max(0, rate_remaining)) ELSE None,
     retry_after |-> None]

\* lines 241-250 of request_middleware: the 429 response
RateLimitedResponse(request_id, decision) ==
    [status |-> 429, body |-> "error", text |-> "Rate limit exceeded", data |-> <<>>,
     stream |-> FALSE,
     x_request_id |-> Some(request_id),
     x_ratelimit_limit |-> Some(settings.rate_limit_rpm),
     x_ratelimit_remaining |-> Some(0),
     retry_after |-> Some(decision.retry_after_s)]

-----------------------------------------------------------------------------
(* app/main.py: the upstream client *)

RECURSIVE PathStr(_)
PathStr(path) == IF path = <<>> THEN "" ELSE "/" \o path[1] \o PathStr(Tail(path))

\* sorted() on the keys of a metric family: routes in the order of their path strings,
\* methods in the order of their names, statuses in numeric order
RouteOrder == <<<<"health">>, <<"metrics">>, <<"v1">>, ChatPath, CompletionsPath,
                EmbeddingsPath, ModelsPath>>
MethodOrder == <<"GET", "OPTIONS", "POST">>
IndexOf(seq, x) == CHOOSE i \in 1..Len(seq) : seq[i] = x
RouteRank(route) == IndexOf(RouteOrder, route)
RouteMethodRank(k) == RouteRank(k[1]) * (Len(MethodOrder) + 1) + IndexOf(MethodOrder, k[2])
RouteMethodStatusRank(k) == RouteMethodRank(k) * 1000 + k[3]

RECURSIVE SortedBy(_, _)
SortedBy(S, rank) ==
    IF S = {} THEN <<>>
    ELSE LET k == CHOOSE x \in S : \A y \in S : rank[x] <= rank[y]
         IN <<k>> \o SortedBy(S \ {k}, rank)

\* f"{value:.6f}" of a time kept in ticks: the number of millionths of a second, rounded
SixDecimals(ticks) == (ticks * 1000000 * 2 + TicksPerSecond) \div (2 * TicksPerSecond)

\* the "# HELP" and "# TYPE" lines of a family, then one sample line per key
MetricFamily(family, keys, labels, values) ==
    <<[kind |-> "# HELP", family |-> family, labels |-> <<>>, value |-> 0],
      [kind |-> "# TYPE", family |-> family, labels |-> <<>>, value |-> 0]>>
    \o [i \in 1..Len(keys) |->
          [kind |-> "sample", family |-> family, labels |-> labels[keys[i]],
           value |-> values[keys[i]]]]

\* MetricsRegistry.render_prometheus: the lines of the exposition, in order
render_prometheus(m) ==
    LET ByRouteMethodStatus(d) == SortedBy(DOMAIN d, [k \in DOMAIN d |-> RouteMethodStatusRank(k)])
        ByRouteMethod(d) == SortedBy(DOMAIN d, [k \in DOMAIN d |-> RouteMethodRank(k)])
        ByRoute(d) == SortedBy(DOMAIN d, [k \in DOMAIN d |-> RouteRank(k)])
        RMS(d) == [k \in DOMAIN d |-> <<PathStr(k[1]), k[2], ToString(k[3])>>]
        RM(d) == [k \in DOMAIN d |-> <<PathStr(k[1]), k[2]>>]
        R(d) == [k \in DOMAIN d |-> <<PathStr(k)>>]
        Seconds(d) == [k \in DOMAIN d |-> SixDecimals(d[k])]
    IN
    MetricFamily("proxy_requests_total", ByRouteMethodStatus(m.requests_total),
                 RMS(m.requests_total), m.requests_total)
    \o MetricFamily("proxy_request_latency_seconds_sum",
                    ByRouteMethod(m.request_latency_sum),
                    RM(m.request_latency_sum), Seconds(m.request_latency_sum))
    \o MetricFamily("proxy_request_latency_seconds_count",
                    ByRouteMethod(m.request_latency_count),
                    RM(m.request_latency_count), m.request_latency_count)
    \o MetricFamily("proxy_upstream_retries_total", ByRoute(m.upstream_retries_total),
                    R(m.upstream_retries_total), m.upstream_retries_total)
    \o MetricFamily("proxy_upstream_latency_seconds_sum", ByRoute(m.upstream_latency_sum),
                    R(m.upstream_latency_sum), Seconds(m.upstream_latency_sum))
    \o MetricFamily("proxy_upstream_latency_seconds_count",
                    ByRoute(m.upstream_latency_count),
                    R(m.upstream_latency_count), m.upstream_latency_count)
    \o MetricFamily("proxy_upstream_errors_total", ByRoute(m.upstream_errors_total),
                    R(m.upstream_errors_total), m.upstream_errors_total)
    \o MetricFamily("proxy_rate_limited_total", <<"total">>,
                    ("total" :> <<>>), ("total" :> m.rate_limited_total))

\* a pass of the loop that turns a retriable status it can no longer retry into a 502
Step_exhausted_502(next, m, status, text, clients, responses) ==
    IF next = "return" /\ status \in RETRIABLE_STATUS_CODES
    THEN [next |-> "raise", metrics |-> m, status |-> 502,
          text |-> "Failed to reach upstream", clients |-> 0, responses |-> 0]
    ELSE [next |-> next, metrics |-> m, status |-> status, text |-> text,
          clients |-> clients, responses |-> responses]

\* what a *_with_retry call does with the outcome of one attempt:
\*   next = "sleep" (retry after the backoff), "return", "raise" (HTTPException) or
\*   "unexpected" (another exception leaves the call); clients and responses are the
\*   handles of this attempt still open when that happens
Step(next, m, status, text, clients, responses) ==
    [next |-> next, metrics |-> m, status |-> status, text |-> text,
     clients |-> clients, responses |-> responses]

\* _post_json_with_retry, from the end of `await client.post` to the next await or exit
_post_json_with_retry(cl, m, o, t) ==
    IF o.kind = "response"
    THEN LET m1 == record_upstream_latency(m, cl.path, t - cl.started) IN
         IF o.status \in RETRIABLE_STATUS_CODES /\ cl.attempt < settings.max_retries
         THEN Step("sleep", record_upstream_retry(m1, cl.path), 0, "", 0, 0)
         ELSE Step("return", m1, o.status, o.content, 0, 0)
    ELSE IF o.kind = "timeout"
    THEN LET m1 == record_upstream_error(m, cl.path) IN
         IF cl.attempt < settings.max_retries
         THEN Step("sleep", record_upstream_retry(m1, cl.path), 0, "", 0, 0)
         ELSE Step("raise", m1, 504, "Upstream timeout on " \o PathStr(cl.path), 0, 0)
    ELSE IF o.kind = "request_error"
    THEN LET m1 == record_upstream_error(m, cl.path) IN
         IF cl.attempt < settings.max_retries
         THEN Step("sleep", record_upstream_retry(m1, cl.path), 0, "", 0, 0)
         ELSE Step("raise", m1, 502, "Upstream request failed on " \o PathStr(cl.path), 0, 0)
    ELSE Step("unexpected", m, 0, "", 0, 0)

\* _get_with_retry that takes every attempt for the last one
_get_with_retry_no_retry(cl, m, o, t) ==
    _post_json_with_retry([cl EXCEPT !.attempt = settings.max_retries], m, o, t)

\* _get_with_retry, from the end of `await client.get` to the next await or exit
_get_with_retry(cl, m, o, t) ==
    IF o.kind = "response"
    THEN LET m1 == record_upstream_latency(m, cl.path, t - cl.started) IN
         IF o.status \in RETRIABLE_STATUS_CODES /\ cl.attempt < settings.max_retries
         THEN Step("sleep", record_upstream_retry(m1, cl.path), 0, "", 0, 0)
         ELSE Step("return", m1, o.status, o.content, 0, 0)
    ELSE IF o.kind = "timeout"
    THEN LET m1 == record_upstream_error(m, cl.path) IN
         IF cl.attempt < settings.max_retries
         THEN Step("sleep", record_upstream_retry(m1, cl.path), 0, "", 0, 0)
         ELSE Step("raise", m1, 504, "Upstream timeout on " \o PathStr(cl.path), 0, 0)
    ELSE IF o.kind = "request_error"
    THEN LET m1 == record_upstream_error(m, cl.path) IN
         IF cl.attempt < settings.max_retries
         THEN Step("sleep", record_upstream_retry(m1, cl.path), 0, "", 0, 0)
         ELSE Step("raise", m1, 502, "Upstream request failed on " \o PathStr(cl.path), 0, 0)
    ELSE Step("unexpected", m, 0, "", 0, 0)

\* _post_stream_with_retry that closes the response of an attempt it retries and leaves
\* the client of that attempt open
_post_stream_with_retry_keeps_client(cl, m, o, t) ==
    LET st == _post_json_with_retry(cl, m, o, t) IN
    IF st.next = "return" THEN [st EXCEPT !.clients = 1, !.responses = 1]
    ELSE IF st.next = "unexpected" THEN [st EXCEPT !.clients = 1]
    ELSE IF st.next = "sleep" /\ o.kind = "response" THEN [st EXCEPT !.clients = 1]
    ELSE st

\* _post_stream_with_retry, from the end of `await client.send` to the next await or exit;
\* the client of the attempt is open (line 137) and nothing but the two except clauses
\* and the retry branch closes it
_post_stream_with_retry(cl, m, o, t) ==
    IF o.kind = "response"
    THEN LET m1 == record_upstream_latency(m, cl.path, t - cl.started) IN
         IF o.status \in RETRIABLE_STATUS_CODES /\ cl.attempt < settings.max_retries
         THEN Step("sleep", record_upstream_retry(m1, cl.path), 0, "", 0, 0)
         ELSE Step("return", m1, o.status, o.content, 1, 1)
    ELSE IF o.kind = "timeout"
    THEN LET m1 == record_upstream_error(m, cl.path) IN
         IF cl.attempt < settings.max_retries
         THEN Step("sleep", record_upstream_retry(m1, cl.path), 0, "", 0, 0)
         ELSE Step("raise", m1, 504, "Upstream timeout on " \o PathStr(cl.path), 0, 0)
    ELSE IF o.kind = "request_error"
    THEN LET m1 == record_upstream_error(m, cl.path) IN
         IF cl.attempt < settings.max_retries
         THEN Step("sleep", record_upstream_retry(m1, cl.path), 0, "", 0, 0)
         ELSE Step("raise", m1, 502, "Upstream request failed on " \o PathStr(cl.path), 0, 0)
    ELSE Step("unexpected", m, 0, "", 1, 0)

WithRetry(cl, m, o, t) ==
    IF cl.kind = "post_json" THEN _post_json_with_retry(cl, m, o, t)
    ELSE IF cl.kind = "get" THEN _get_with_retry(cl, m, o, t)
    ELSE _post_stream_with_retry(cl, m, o, t)

\* entering a *_with_retry call: attempt 0 is sent, its client is open
NewCall(kind, base_url, path, request_id, t) ==
    [kind |-> kind, base_url |-> base_url, path |-> path, attempt |-> 0,
     x_request_id |-> _proxy_headers(request_id), started |-> t, ncalls |-> 0,
     retries |-> 0, latencies |-> 0, answer |-> NoOutcome, result |-> NoResult]

-----------------------------------------------------------------------------
(* app/main.py: endpoints *)

\* the method each registered route answers to (@app.get / @app.post)
EndpointMethod ==
    (<<"health">> :> "GET") @@ (<<"metrics">> :> "GET") @@ (ModelsPath :> "GET")
    @@ (ChatPath :> "POST") @@ (CompletionsPath :> "POST") @@ (EmbeddingsPath :> "POST")

\* schemas that require the model and nothing else
ValidBody_model_only(route, b) == b.model # None

\* app/schemas.py: does the body satisfy the schema of the route
ValidBody(route, b) ==
    /\ b.model # None
    /\ IF route = EmbeddingsPath THEN b.content = "some" ELSE b.content # "missing"

\* the "data" array of an upstream /v1/models body: the ids it lists
ParseModels(content) == IF content = "B1" THEN <<"up-a", "up-b">> ELSE <<>>

\* lines 332-349 of list_models: the entries one upstream contributes
Entries(model, base_url, content) ==
    LET ids == ParseModels(content) IN
    IF ids # <<>>
    THEN [i \in 1..Len(ids) |-> [id |-> model, upstream_model_id |-> ids[i], upstream |-> ""]]
    ELSE <<[id |-> model, upstream_model_id |-> "", upstream |-> base_url]>>

\* list_models without its deduplication pass
Unique_keeps_duplicates(data, seen) == data

\* lines 354-360 of list_models: drop entries whose id was seen before
RECURSIVE Unique(_, _)
Unique(data, seen) ==
    IF data = <<>> THEN <<>>
    ELSE IF data[1].id \in seen THEN Unique(Tail(data), seen)
    ELSE <<data[1]>> \o Unique(Tail(data), seen \cup {data[1].id})

RECURSIVE Join(_)
Join(names) == IF names = <<>> THEN ""
               ELSE IF Len(names) = 1 THEN names[1]
               ELSE names[1] \o ", " \o Join(Tail(names))

\* the detail of the HTTPException of ModelRouter.upstream_for_model
UnknownModelDetail(model, available) ==
    "Unknown model '" \o model \o "'. Available models: " \o Join(available)

-----------------------------------------------------------------------------
(* The state machine *)

InitWith(rpms, key_tables, model_maps) ==
    /\ settings \in [max_retries : {max_retries}, rate_limit_rpm : rpms]
    /\ auth_keys \in key_tables
    /\ upstreams \in model_maps
    /\ limit_per_minute = Max(1, settings.rate_limit_rpm)
    /\ buckets = [c \in {} |-> <<>>]
    /\ metrics = MetricsInit
    /\ now = 0
    /\ pc = [w \in Workers |-> "idle"]
    /\ req = [w \in Workers |-> NoReq]
    /\ ctx = [w \in Workers |-> NoCtx]
    /\ call = [w \in Workers |-> NoCall]
    /\ handles = [w \in Workers |-> NoHandles]
    /\ resp = [w \in Workers |-> NoResp]
    /\ hist = [accepted |-> 0, completed |-> 0, upstream_calls |-> 0, advances |-> 0,
               records |-> 0, checks |-> <<>>]

config == <<settings, auth_keys, upstreams, limit_per_minute>>

\* request_middleware, lines 223-264: from the arrival of request r to the first await
\* (call_next), or to the response when auth or the limiter ends the request
Begin(w, r, budget) ==
    /\ pc[w] \in {"idle", "done", "cancelled"}
    /\ hist.accepted < budget
    /\ LET request_id == _request_id(r.x_request_id, hist.accepted + 1)
           client_ip == _client_ip(r.peer)
           identity == authenticate(auth_keys, r.authorization)
           client_id == IF AuthEnabled(auth_keys) THEN identity.client_id ELSE client_ip
           chk == Check(buckets, limit_per_minute, client_id, now)
           c0 == [NoCtx EXCEPT !.started = now, !.request_id = request_id,
                               !.rate_remaining = settings.rate_limit_rpm]
       IN
       /\ req' = [req EXCEPT ![w] = [route |-> r.route, method |-> r.method,
                                     x_request_id |-> r.x_request_id]]
       /\ call' = [call EXCEPT ![w] = NoCall]
       /\ handles' = [handles EXCEPT ![w] = NoHandles]
       /\ IF AuthClass(r.route, r.method) /\ ~identity.ok
          THEN \* except HTTPException, then lines 281-297
               /\ resp' = [resp EXCEPT ![w] =
                     Finalized(OutResponse(identity.status, "error", identity.detail, <<>>, FALSE),
                               r.route, r.method, request_id, c0.rate_remaining)]
               /\ metrics' = record_request(metrics, r.route, r.method, identity.status, 0)
               /\ ctx' = [ctx EXCEPT ![w] = NoCtx]
               /\ pc' = [pc EXCEPT ![w] = "done"]
               /\ hist' = [hist EXCEPT !.accepted = @ + 1, !.completed = @ + 1]
               /\ UNCHANGED buckets
          ELSE IF AuthClass(r.route, r.method) /\ ~chk.decision.allowed
          THEN \* lines 240-261
               /\ resp' = [resp EXCEPT ![w] = RateLimitedResponse(request_id, chk.decision)]
               /\ metrics' = record_request(record_rate_limited(metrics),
                                            r.route, r.method, 429, 0)
               /\ buckets' = BucketsAfter(buckets, client_id, chk.bucket)
               /\ ctx' = [ctx EXCEPT ![w] = NoCtx]
               /\ pc' = [pc EXCEPT ![w] = "done"]
               /\ hist' = [hist EXCEPT !.accepted = @ + 1, !.completed = @ + 1,
                              !.checks = Append(@, [client_id |-> client_id, t |-> now,
                                                    decision |-> chk.decision])]
          ELSE /\ resp' = [resp EXCEPT ![w] = NoResp]
               /\ ctx' = [ctx EXCEPT ![w] =
                     IF AuthClass(r.route, r.method)
                     THEN [c0 EXCEPT !.rate_remaining = chk.decision.remaining]
                     ELSE c0]
               /\ buckets' = IF AuthClass(r.route, r.method)
                             THEN BucketsAfter(buckets, client_id, chk.bucket)
                             ELSE buckets
               /\ pc' = [pc EXCEPT ![w] = "call_next"]
               /\ hist' = [hist EXCEPT !.accepted = @ + 1,
                              !.checks = IF AuthClass(r.route, r.method)
                                         THEN Append(@, [client_id |-> client_id, t |-> now,
                                                         decision |-> chk.decision])
                                         ELSE @]
               /\ UNCHANGED metrics
    /\ UNCHANGED <<config, now>>

\* the handler ends with outcome `out`: call_next returns it to request_middleware
HandlerEnds(w, out) ==
    /\ ctx' = [ctx EXCEPT ![w].out = out, ![w].handled = TRUE]
    /\ pc' = [pc EXCEPT ![w] = "finalize"]

\* the handler enters a *_with_retry call and suspends in its first attempt
HandlerCalls(w, c, kind, base_url, path) ==
    /\ ctx' = [ctx EXCEPT ![w] = [c EXCEPT !.handled = TRUE]]
    /\ call' = [call EXCEPT ![w] = NewCall(kind, base_url, path, c.request_id, now)]
    /\ handles' = [handles EXCEPT ![w] = [clients |-> 1, responses |-> 0]]
    /\ pc' = [pc EXCEPT ![w] = "attempt"]

\* call_next for a request no endpoint of main.py takes (404, 405), and the health and
\* metrics endpoints
HandleInfra(w) ==
    /\ pc[w] = "call_next"
    /\ LET route == req[w].route IN
       /\ IF route \in DOMAIN EndpointMethod
          THEN EndpointMethod[route] # req[w].method
               \/ route \in {<<"health">>, <<"metrics">>}
          ELSE TRUE
       /\ HandlerEnds(w,
             IF route \notin DOMAIN EndpointMethod
             THEN OutResponse(404, "detail", "Not Found", <<>>, FALSE)
             ELSE IF EndpointMethod[route] # req[w].method
             THEN OutResponse(405, "detail", "Method Not Allowed", <<>>, FALSE)
             ELSE IF route = <<"health">>
             THEN OutResponse(200, "health", "ok", <<>>, FALSE)
             ELSE OutResponse(200, "metrics", "", render_prometheus(metrics), FALSE))
    /\ UNCHANGED <<config, buckets, metrics, now, req, call, handles, resp, hist>>

\* list_models, lines 311-329: up to the first `await _get_with_retry`
HandleModels(w) ==
    /\ pc[w] = "call_next"
    /\ req[w].route = ModelsPath /\ req[w].method = "GET"
    /\ IF ~has_model_map(upstreams)
       THEN HandlerCalls(w, ctx[w], "get", llama_cpp_base_url, ModelsPath)
       ELSE HandlerCalls(w, [ctx[w] EXCEPT !.models_i = 1], "get",
                         configured_upstreams(upstreams)[1][2], ModelsPath)
    /\ UNCHANGED <<config, buckets, metrics, now, req, resp, hist>>

\* chat_completions, completions, embeddings: body validation, routing, and the entry
\* into _post_stream_with_retry or _post_json_with_retry
HandlePost(w, b) ==
    /\ pc[w] = "call_next"
    /\ req[w].route \in {ChatPath, CompletionsPath, EmbeddingsPath}
    /\ req[w].method = "POST"
    /\ LET route == req[w].route
           target == upstream_for_model(upstreams, b.model[1])
       IN
       IF ~ValidBody(route, b)
       THEN /\ HandlerEnds(w, OutResponse(422, "detail", "validation", <<>>, FALSE))
            /\ UNCHANGED <<call, handles>>
       ELSE IF ~target.ok
       THEN /\ HandlerEnds(w, OutResponse(target.status, "detail",
                              UnknownModelDetail(b.model[1], target.available), <<>>, FALSE))
            /\ UNCHANGED <<call, handles>>
       ELSE HandlerCalls(w, ctx[w],
                         IF b.stream /\ route # EmbeddingsPath THEN "post_stream"
                         ELSE "post_json",
                         target.base_url, route)
    /\ UNCHANGED <<config, buckets, metrics, now, req, resp, hist>>

\* the upstream answers the attempt in flight with outcome o: the *_with_retry call
\* runs on to its backoff sleep, or ends (return or raise)
Attempt(w, o) ==
    /\ pc[w] = "attempt"
    /\ LET cl == call[w]
           st == WithRetry(cl, metrics, o, now)
           grown == Get0(st.metrics.upstream_retries_total, cl.path)
                    - Get0(metrics.upstream_retries_total, cl.path)
           timed == Get0(st.metrics.upstream_latency_count, cl.path)
                    - Get0(metrics.upstream_latency_count, cl.path)
       IN
       /\ metrics' = st.metrics
       /\ handles' = [handles EXCEPT ![w] =
                         [clients |-> st.clients, responses |-> st.responses]]
       /\ IF st.next = "sleep"
          THEN /\ call' = [call EXCEPT ![w].ncalls = @ + 1, ![w].retries = @ + grown,
                                       ![w].latencies = @ + timed]
               /\ pc' = [pc EXCEPT ![w] = "sleep"]
          ELSE /\ call' = [call EXCEPT ![w].ncalls = @ + 1, ![w].retries = @ + grown,
                                       ![w].latencies = @ + timed,
                                       ![w].answer = o,
                                       ![w].result = [next |-> st.next, status |-> st.status,
                                                      text |-> st.text]]
               /\ pc' = [pc EXCEPT ![w] = "returned"]
    /\ hist' = [hist EXCEPT !.upstream_calls = @ + 1]
    /\ UNCHANGED <<config, buckets, now, req, ctx, resp>>

\* _sleep_retry ends: the loop of the *_with_retry call sends the next attempt
Wake(w) ==
    /\ pc[w] = "sleep"
    /\ call' = [call EXCEPT ![w].attempt = @ + 1, ![w].started = now]
    /\ handles' = [handles EXCEPT ![w].clients = @ + 1]
    /\ pc' = [pc EXCEPT ![w] = "attempt"]
    /\ UNCHANGED <<config, buckets, metrics, now, req, ctx, resp, hist>>

\* the handler takes the result of its *_with_retry call: list_models goes on to the
\* next configured upstream or builds its list, the other handlers build their response
Resume(w) ==
    /\ pc[w] = "returned"
    /\ LET res == call[w].result
           c == ctx[w]
           ups == configured_upstreams(upstreams)
       IN
       IF c.models_i > 0
       THEN LET data == IF res.next = "return" /\ res.status < 400
                        THEN c.data \o Entries(ups[c.models_i][1], ups[c.models_i][2], res.text)
                        ELSE c.data
            IN
            IF c.models_i < Len(ups)
            THEN /\ ctx' = [ctx EXCEPT ![w].models_i = @ + 1, ![w].data = data]
                 /\ call' = [call EXCEPT ![w] =
                       NewCall("get", ups[c.models_i + 1][2], ModelsPath, c.request_id, now)]
                 /\ handles' = [handles EXCEPT ![w] = [clients |-> 1, responses |-> 0]]
                 /\ pc' = [pc EXCEPT ![w] = "attempt"]
            ELSE /\ ctx' = [ctx EXCEPT ![w].data = data,
                                       ![w].out = OutResponse(200, "models", "",
                                                              Unique(data, {}), FALSE)]
                 /\ pc' = [pc EXCEPT ![w] = "finalize"]
                 /\ UNCHANGED <<call, handles>>
       ELSE /\ ctx' = [ctx EXCEPT ![w].out =
                          IF res.next = "return"
                          THEN OutResponse(res.status, "upstream", res.text, <<>>,
                                           call[w].kind = "post_stream")
                          ELSE IF res.next = "raise"
                          THEN OutResponse(res.status, "detail", res.text, <<>>, FALSE)
                          ELSE OutException]
            /\ pc' = [pc EXCEPT ![w] = "finalize"]
            /\ UNCHANGED <<call, handles>>
    /\ UNCHANGED <<config, buckets, metrics, now, req, resp, hist>>

\* request_middleware, lines 265-297: call_next has returned a response or raised
Finalize(w) ==
    /\ pc[w] = "finalize"
    /\ LET c == ctx[w]
           failed == c.out.kind = "exception"
           out == IF failed
                  THEN OutResponse(500, "error", "Internal server error", <<>>, FALSE)
                  ELSE c.out
           m1 == IF failed THEN record_upstream_error(metrics, req[w].route) ELSE metrics
       IN
       /\ resp' = [resp EXCEPT ![w] =
             Finalized(out, req[w].route, req[w].method, c.request_id, c.rate_remaining)]
       /\ metrics' = record_request(m1, req[w].route, req[w].method, out.status,
                                    now - c.started)
       /\ pc' = [pc EXCEPT ![w] = IF out.stream THEN "stream_pending" ELSE "done"]
    /\ ctx' = [ctx EXCEPT ![w] = NoCtx]
    /\ call' = [call EXCEPT ![w] = NoCall]
    /\ hist' = [hist EXCEPT !.completed = @ + 1]
    /\ UNCHANGED <<config, buckets, now, req, handles>>

\* event_stream is iterated for the first time: it enters its try block
StreamStart(w) ==
    /\ pc[w] = "stream_pending"
    /\ pc' = [pc EXCEPT ![w] = "streaming"]
    /\ UNCHANGED <<config, buckets, metrics, now, req, ctx, call, handles, resp, hist>>

\* event_stream leaves its loop (end of the chunks, or an error reading one) and runs
\* its finally block: upstream.aclose(), which may raise, then client.aclose()
StreamEnd(w, close_raises) ==
    /\ pc[w] = "streaming"
    /\ handles' = [handles EXCEPT ![w] =
                      IF close_raises THEN [clients |-> 1, responses |-> 0]
                      ELSE [clients |-> 0, responses |-> 0]]
    /\ pc' = [pc EXCEPT ![w] = "done"]
    /\ UNCHANGED <<config, buckets, metrics, now, req, ctx, call, resp, hist>>

\* the task of the request is cancelled (client disconnect) where it is suspended.
\* CancelledError is no httpx exception: `async with` closes the client of a buffered
\* attempt, nothing closes the client of a streamed attempt; an event_stream that was
\* never iterated never runs its finally block, one suspended in its loop does
Cancel(w) ==
    /\ pc[w] \in {"call_next", "attempt", "sleep", "finalize", "stream_pending", "streaming"}
    /\ handles' = [handles EXCEPT ![w] =
                      IF pc[w] = "attempt" /\ call[w].kind # "post_stream" THEN NoHandles
                      ELSE IF pc[w] = "streaming" THEN NoHandles
                      ELSE @]
    /\ pc' = [pc EXCEPT ![w] = "cancelled"]
    /\ ctx' = [ctx EXCEPT ![w] = NoCtx]
    /\ call' = [call EXCEPT ![w] = NoCall]
    /\ UNCHANGED <<config, buckets, metrics, now, req, resp, hist>>

\* the monotonic clock advances by d ticks
Advance(d, budget) ==
    /\ hist.advances < budget
    /\ now' = now + d
    /\ hist' = [hist EXCEPT !.advances = @ + 1]
    /\ UNCHANGED <<config, buckets, metrics, pc, req, ctx, call, handles, resp>>

\* SlidingWindowRateLimiter.check(client_id), called on its own
LimiterCheck(client_id) ==
    /\ Len(hist.checks) < MaxChecks
    /\ LET chk == Check(buckets, limit_per_minute, client_id, now) IN
       /\ buckets' = BucketsAfter(buckets, client_id, chk.bucket)
       /\ hist' = [hist EXCEPT !.checks =
                      Append(@, [client_id |-> client_id, t |-> now,
                                 decision |-> chk.decision])]
    /\ UNCHANGED <<config, metrics, now, pc, req, ctx, call, handles, resp>>

\* no request is in flight
Quiet == \A w \in Workers : pc[w] \in {"idle", "done", "cancelled"}

-----------------------------------------------------------------------------
(* The pipeline: requests of every kind, one after the other, against an upstream  *)
(* that answers every attempt with a status that is not retried, or fails in a way *)
(* the upstream client does not catch.                                              *)

\* every Authorization header without an x-request-id, every x-request-id header
\* without an Authorization
PipelineRequests == {r \in Requests :
                        /\ <<r.method, r.route>> \in
                              {<<"GET", <<"health">>>>, <<"GET", <<"metrics">>>>,
                               <<"GET", <<"v1">>>>, <<"GET", ModelsPath>>,
                               <<"POST", EmbeddingsPath>>, <<"OPTIONS", ChatPath>>}
                        /\ \/ r.x_request_id = None
                           \/ r.authorization = None}
PipelineBodies == {b \in Bodies : ~b.stream}
PipelineOutcomes == {o \in Outcomes : /\ o.kind \in {"response", "unexpected"}
                                       /\ o.status \notin RETRIABLE_STATUS_CODES
                                       /\ o.content # "B2"}

Init == InitWith(RpmChoices, KeyTables, {[k \in {} |-> ""]})

Next ==
    \/ \E w \in MainWorkers, r \in PipelineRequests : Begin(w, r, MaxRequests)
    \/ \E w \in MainWorkers : HandleInfra(w)
    \/ \E w \in MainWorkers : HandleModels(w)
    \/ \E w \in MainWorkers, b \in PipelineBodies : HandlePost(w, b)
    \/ \E w \in MainWorkers, o \in PipelineOutcomes : Attempt(w, o)
    \/ \E w \in MainWorkers : Resume(w)
    \/ \E w \in MainWorkers : Finalize(w)
    \/ Quiet /\ Advance(WindowTicks + 1, MaxAdvances)

Spec == Init /\ [][Next]_vars

-----------------------------------------------------------------------------
(* The upstream client: the requests that reach an upstream, with every outcome of *)
(* an attempt, streaming, and cancellation of the request task.                    *)

UpstreamRequests == {r \in Requests :
                        /\ <<r.method, r.route>> \in
                              {<<"GET", ModelsPath>>, <<"POST", ChatPath>>,
                               <<"POST", CompletionsPath>>, <<"POST", EmbeddingsPath>>}
                        /\ r.authorization = None
                        /\ r.x_request_id = Some(<<" ", "a", " ">>)}
UpstreamBodies == Bodies

InitUpstream == InitWith({2}, {[k \in {} |-> ""]}, ModelMaps)

NextUpstream ==
    \/ \E w \in MainWorkers, r \in UpstreamRequests : Begin(w, r, MaxCalls)
    \/ \E w \in MainWorkers : HandleModels(w)
    \/ \E w \in MainWorkers, b \in UpstreamBodies : HandlePost(w, b)
    \/ \E w \in MainWorkers, o \in Outcomes : Attempt(w, o)
    \/ \E w \in MainWorkers : Wake(w)
    \/ \E w \in MainWorkers : Resume(w)
    \/ \E w \in MainWorkers : Finalize(w)
    \/ \E w \in MainWorkers : StreamStart(w)
    \/ \E w \in MainWorkers, x \in BOOLEAN : StreamEnd(w, x)
    \/ \E w \in MainWorkers : Cancel(w)

SpecUpstream == InitUpstream /\ [][NextUpstream]_vars

-----------------------------------------------------------------------------
(* The rate limiter on its own: check called for two clients at chosen times *)

LimiterRpms == {0, 2, 3}
LimiterClients == {"client-1", "client-2"}
LimiterDeltas == {1, WindowTicks - 2, WindowTicks + 1}

InitLimiter == InitWith(LimiterRpms, {KeyTable}, {[k \in {} |-> ""]})

NextLimiter ==
    \/ \E c \in LimiterClients : LimiterCheck(c)
    \/ \E d \in LimiterDeltas : Advance(d, MaxTicks)

SpecLimiter == InitLimiter /\ [][NextLimiter]_vars

-----------------------------------------------------------------------------
(* Properties of the upstream client, under SpecUpstream *)

\* C1: once a request has ended (its response was delivered and its stream, if any,
\* was consumed, or its task was cancelled at any point where it was suspended), no
\* upstream client and no upstream response opened for it is still open.
C1_NoLeakedConnection ==
    \A w \in Workers :
        pc[w] \in {"done", "cancelled"} =>
            handles[w].clients = 0 /\ handles[w].responses = 0

\* C2: a *_with_retry call of any of the three kinds contacts the upstream at most
\* max_retries + 1 times; when it ends after k retries it has contacted the upstream
\* exactly k + 1 times and upstream_retries_total of its path has grown by exactly k.
C2_RetriesCounted ==
    \A w \in Workers :
        /\ call[w].ncalls <= settings.max_retries + 1
        /\ call[w].attempt <= settings.max_retries
        /\ pc[w] = "returned" =>
              /\ call[w].kind \in {"get", "post_json", "post_stream"}
              /\ call[w].ncalls = call[w].attempt + 1
              /\ call[w].retries = call[w].attempt

\* C2 happens: a streamed call ended after max_retries retries, a buffered one after one
C2_Witness ==
    \E w \in Workers :
        /\ pc[w] = "returned"
        /\ call[w].kind = "post_stream"
        /\ call[w].attempt = settings.max_retries
        /\ call[w].ncalls = settings.max_retries + 1
        /\ call[w].retries = settings.max_retries

\* C10: when the upstream answers an attempt with a status outside
\* {429, 500, 502, 503, 504}, the call ends in that step and returns that status and
\* body; it does not sleep, makes no further attempt, and leaves upstream_retries_total
\* as it was.
C10_NonRetriableReturned ==
    [][\A w \in MainWorkers, o \in Outcomes :
          (/\ o.kind = "response"
           /\ o.status \notin {429, 500, 502, 503, 504}
           /\ hist'.upstream_calls = hist.upstream_calls + 1
           /\ Attempt(w, o))
          => /\ pc'[w] = "returned"
             /\ call'[w].result = [next |-> "return", status |-> o.status,
                                   text |-> o.content]
             /\ call'[w].ncalls = call[w].ncalls + 1
             /\ call'[w].attempt = call[w].attempt
             /\ metrics'.upstream_retries_total = metrics.upstream_retries_total]_vars

\* C10 happens: a first attempt answered 400 ended its call with the 400 and its body
C10_Witness ==
    \E w \in Workers :
        /\ pc[w] = "returned"
        /\ call[w].answer = [kind |-> "response", status |-> 400, content |-> "B2"]
        /\ call[w].result = [next |-> "return", status |-> 400, text |-> "B2"]
        /\ call[w].attempt = 0
        /\ call[w].ncalls = 1
        /\ Total(metrics.upstream_retries_total) = 0

-----------------------------------------------------------------------------
(* Properties of the rate limiter, under SpecLimiter *)

\* the checks of client c among the first i of the log
C3_Rank(c, i) == Cardinality({j \in 1..i : hist.checks[j].client_id = c})

\* the time of the first check of client c
C3_First(c) ==
    hist.checks[CHOOSE j \in 1..Len(hist.checks) :
                    hist.checks[j].client_id = c /\ C3_Rank(c, j) = 1].t

\* C3: with N = max(1, rpm) and a bucket that starts empty, of the first N + 1 checks of
\* one client made within 60 s the k-th, k <= N, is allowed with remaining = N - k
\* (N-1, N-2, ..., 0) and the (N+1)-th, the last, is the one refused.
C3_WindowCapacity ==
    LET N == IF settings.rate_limit_rpm > 1 THEN settings.rate_limit_rpm ELSE 1 IN
    \A i \in 1..Len(hist.checks) :
        LET e == hist.checks[i]
            k == C3_Rank(e.client_id, i)
        IN
        (k <= N + 1 /\ e.t - C3_First(e.client_id) <= 60 * TicksPerSecond) =>
            IF k <= N
            THEN e.decision.allowed /\ e.decision.remaining = N - k
            ELSE ~e.decision.allowed

\* C3 happens: with N = 3, a client made four checks, the last one half a second
\* before the 60 s were over, and the fourth was the one refused
C3_Witness ==
    /\ settings.rate_limit_rpm = 3
    /\ Len(hist.checks) = 4
    /\ \A i \in 1..4 : hist.checks[i].client_id = "client-1"
    /\ hist.checks[4].t - hist.checks[1].t = 60 * TicksPerSecond - 1
    /\ \A i \in 1..3 : hist.checks[i].decision.allowed
    /\ ~hist.checks[4].decision.allowed

-----------------------------------------------------------------------------
(* Properties of the request pipeline, under Spec *)

\* the request worker w has taken in this step, if its Authorization header was a
Arrival(w, a) ==
    [route |-> req'[w].route, method |-> req'[w].method, authorization |-> a,
     x_request_id |-> req'[w].x_request_id, peer |-> Some("10.0.0.1")]

\* the step in which the pipeline takes a request with Authorization header a and a
\* request line among `lines`
Arrives(w, a, lines) ==
    /\ hist'.accepted = hist.accepted + 1
    /\ <<req'[w].method, req'[w].route>> \in lines
    /\ Begin(w, Arrival(w, a), MaxRequests)

\* the requests of the authenticated class: path under /v1/, method not OPTIONS
AuthClassLines == {<<"GET", ModelsPath>>, <<"POST", EmbeddingsPath>>}

\* the other requests the pipeline is sent
OpenLines == {<<"GET", <<"health">>>>, <<"GET", <<"metrics">>>>, <<"GET", <<"v1">>>>,
              <<"OPTIONS", ChatPath>>}

\* the ids the pipeline has generated so far
FreshIds == {Uuid(n) : n \in 1..hist.accepted}

\* the inbound x-request-id headers, trimmed
Trimmed == (<<" ">> :> <<>>) @@ (<<" ", "a", " ">> :> <<"a">>)

\* the id request h is to be known by: its trimmed header, or else one of the fresh ids
IdAgrees(h, id) ==
    IF h # None /\ Trimmed[h[1]] # <<>> THEN id = Trimmed[h[1]] ELSE id \in FreshIds

\* C4: every response the pipeline returns carries an x-request-id; it is the trimmed
\* inbound x-request-id when that is not empty, and a freshly generated id otherwise;
\* the upstream is sent the same id.
C4_RequestIdCarried ==
    \A w \in Workers :
        /\ pc[w] = "done" =>
              /\ resp[w].x_request_id # None
              /\ IdAgrees(req[w].x_request_id, resp[w].x_request_id[1])
        /\ pc[w] \in {"attempt", "returned"} =>
              /\ IdAgrees(req[w].x_request_id, call[w].x_request_id)
              /\ call[w].x_request_id = ctx[w].request_id

\* C4 happens: the second request, POST /v1/embeddings with x-request-id " a ", went to
\* the upstream and was answered 200 under the id "a"
C4_Witness ==
    \E w \in Workers :
        /\ pc[w] = "done"
        /\ hist.accepted = 2
        /\ req[w].route = EmbeddingsPath
        /\ req[w].x_request_id = Some(<<" ", "a", " ">>)
        /\ resp[w].status = 200
        /\ resp[w].x_request_id = Some(<<"a">>)
        /\ hist.upstream_calls >= 1

\* C5: every response to a request under /v1/ whose method is not OPTIONS, the 401, 429
\* and other error responses included, has x-ratelimit-limit and x-ratelimit-remaining,
\* and x-ratelimit-remaining is not negative.
C5_RateLimitHeaders ==
    \A w \in Workers :
        (pc[w] = "done" /\ <<req[w].method, req[w].route>> \in AuthClassLines) =>
            /\ resp[w].x_ratelimit_limit # None
            /\ resp[w].x_ratelimit_remaining # None
            /\ resp[w].x_ratelimit_remaining[1] >= 0

\* C5 happens: POST /v1/embeddings was answered 500 after an unexpected error, with
\* x-ratelimit-limit 2 and x-ratelimit-remaining 1
C5_Witness ==
    \E w \in Workers :
        /\ pc[w] = "done"
        /\ req[w].route = EmbeddingsPath
        /\ resp[w].status = 500
        /\ resp[w].x_ratelimit_limit = Some(2)
        /\ resp[w].x_ratelimit_remaining = Some(1)

\* C6: the sum of requests_total over its keys is the number of requests that were
\* answered; each answer, whatever its status, adds one to requests_total under the
\* route, the method and the status of that answer, and to no other key.
C6_RequestsCounted ==
    /\ [](Total(metrics.requests_total) = hist.completed)
    /\ [][hist'.completed # hist.completed =>
             \E w \in MainWorkers :
                LET key == <<req'[w].route, req'[w].method, resp'[w].status>> IN
                /\ hist'.completed = hist.completed + 1
                /\ pc'[w] \in {"done", "stream_pending"}
                /\ resp'[w].status # 0
                /\ Get0(metrics'.requests_total, key) = Get0(metrics.requests_total, key) + 1
                /\ \A k \in DOMAIN metrics.requests_total \ {key} :
                       metrics'.requests_total[k] = metrics.requests_total[k]]_vars

\* C6 happens: two requests were answered, one of them 429, and requests_total has
\* one count under 429 and another under 200
C6_Witness ==
    /\ hist.completed = 2
    /\ metrics.rate_limited_total = 1
    /\ Get0(metrics.requests_total, <<EmbeddingsPath, "POST", 429>>) = 1
    /\ Get0(metrics.requests_total, <<ModelsPath, "GET", 200>>) = 1

\* the Authorization headers that name no key: absent, another scheme, "Bearer" with
\* no space after it, and a token the key table does not hold
BadAuthorization == {None, Some(<<"Basic", " ", "k1">>), Some(<<"Bearer">>),
                     Some(<<"Bearer", " ", "zz">>)}

\* C7: with a key configured, a request under /v1/, not OPTIONS, whose Authorization
\* header is absent, does not start with "Bearer ", or has an unknown token is answered
\* 401 at once: the request never reaches call_next, so no handler runs and no upstream
\* call is made for it.
C7_UnauthorizedRefused ==
    [][\A w \in MainWorkers, a \in BadAuthorization :
          (/\ auth_keys # [k \in {} |-> ""]
           /\ Arrives(w, a, AuthClassLines))
          => /\ pc'[w] = "done"
             /\ resp'[w].status = 401
             /\ call'[w] = NoCall
             /\ handles'[w] = NoHandles
             /\ ctx'[w].handled = FALSE
             /\ hist'.upstream_calls = hist.upstream_calls]_vars

\* C7 happens: GET /v1/models with a token that is no key was answered 401
C7_Witness ==
    \E w \in Workers :
        /\ pc[w] = "done"
        /\ auth_keys = KeyTable
        /\ req[w].route = ModelsPath
        /\ resp[w].status = 401
        /\ resp[w].text = "Invalid API key"
        /\ hist.upstream_calls = 0

\* the client a request with Authorization header a is counted against: the client of
\* its key when keys are configured, the peer's address when none is
ClientOf(a) ==
    IF auth_keys = [k \in {} |-> ""] THEN "10.0.0.1"
    ELSE IF a = Some(<<"Bearer", " ", "k1">>) THEN "client-1"
    ELSE "client-2"

\* the Authorization headers that pass authentication
Authenticated(a) ==
    \/ auth_keys = [k \in {} |-> ""]
    \/ a \in {Some(<<"Bearer", " ", "k1">>), Some(<<"Bearer", " ", " ", "k2", " ">>)}

\* C8: when the limiter refuses an authenticated request the answer is 429 with a
\* retry-after header and x-ratelimit-remaining 0, rate_limited_total grows by one, and
\* the request never reaches call_next: no handler runs, no upstream call is made.
\* With capacity 1, the request that follows a client's first request, answered 200, is
\* the one refused, and rate_limited_total is then 1.
C8_RateLimitedRefused ==
    [][\A w \in MainWorkers, a \in AuthHeaders :
          (/\ Authenticated(a)
           /\ Arrives(w, a, AuthClassLines)) =>
             /\ ~Check(buckets, limit_per_minute, ClientOf(a), now).decision.allowed =>
                   /\ pc'[w] = "done"
                   /\ resp'[w].status = 429
                   /\ resp'[w].retry_after # None
                   /\ resp'[w].retry_after[1] >= 1
                   /\ resp'[w].x_ratelimit_remaining = Some(0)
                   /\ metrics'.rate_limited_total = metrics.rate_limited_total + 1
                   /\ call'[w] = NoCall
                   /\ handles'[w] = NoHandles
                   /\ ctx'[w].handled = FALSE
                   /\ hist'.upstream_calls = hist.upstream_calls
             /\ (/\ limit_per_minute = 1
                 /\ hist.accepted = 1
                 /\ hist.advances = 0
                 /\ pc[w] = "done"
                 /\ resp[w].status = 200
                 /\ <<req[w].method, req[w].route>> \in AuthClassLines
                 /\ ClientOf(a) \in DOMAIN buckets) =>
                   /\ resp'[w].status = 429
                   /\ resp'[w].retry_after # None
                   /\ metrics'.rate_limited_total = 1]_vars

\* C8 happens: with RATE_LIMIT_RPM=1, POST /v1/embeddings twice in a row: the second
\* answer is 429 with retry-after and rate_limited_total is 1, after one upstream call
C8_Witness ==
    \E w \in Workers :
        /\ settings.rate_limit_rpm = 1
        /\ hist.completed = 2
        /\ hist.upstream_calls = 1
        /\ pc[w] = "done"
        /\ req[w].route = EmbeddingsPath
        /\ resp[w].status = 429
        /\ resp[w].retry_after # None
        /\ resp[w].x_ratelimit_remaining = Some(0)
        /\ metrics.rate_limited_total = 1
        /\ Get0(metrics.requests_total, <<EmbeddingsPath, "POST", 200>>) = 1

\* C9: a request that is not under /v1/, or is an OPTIONS request, skips authentication
\* and the limiter whatever keys are configured: it goes on to call_next, no bucket and
\* no rate_limited_total changes, and its answer is neither 401 nor 429.
C9_OpenRequestsSkip ==
    /\ [](\A w \in Workers :
             (pc[w] = "done" /\ <<req[w].method, req[w].route>> \in OpenLines) =>
                resp[w].status \notin {401, 429})
    /\ [][\A w \in MainWorkers, a \in AuthHeaders :
             Arrives(w, a, OpenLines) =>
                /\ pc'[w] = "call_next"
                /\ buckets' = buckets
                /\ metrics'.rate_limited_total = metrics.rate_limited_total]_vars

\* C9 happens: with keys configured and the one slot of the window taken, GET /health
\* without Authorization was answered 200 and the bucket is as it was
C9_Witness ==
    \E w \in Workers :
        /\ auth_keys = KeyTable
        /\ limit_per_minute = 1
        /\ hist.completed = 2
        /\ pc[w] = "done"
        /\ req[w].route = <<"health">>
        /\ resp[w].status = 200
        /\ "client-1" \in DOMAIN buckets
        /\ Len(buckets["client-1"]) = 1
        /\ metrics.rate_limited_total = 0

-----------------------------------------------------------------------------
(* More properties of the upstream client, under SpecUpstream *)

\* the text of a path
PathText ==
    (ModelsPath :> "/v1/models") @@ (ChatPath :> "/v1/chat/completions")
    @@ (CompletionsPath :> "/v1/completions") @@ (EmbeddingsPath :> "/v1/embeddings")

\* the step in which the attempt in flight of w is answered with outcome o
Answered(w, o) ==
    /\ hist'.upstream_calls = hist.upstream_calls + 1
    /\ Attempt(w, o)

\* C11: when the last allowed attempt (attempt = max_retries, after a retry of every
\* attempt before it) is answered with a retriable status, the call returns that
\* response, status and body: it raises nothing, records no retry and does not sleep.
C11_ExhaustedReturnsLast ==
    [][\A w \in MainWorkers, o \in Outcomes :
          (/\ o.kind = "response"
           /\ o.status \in {429, 500, 502, 503, 504}
           /\ call[w].attempt = settings.max_retries
           /\ Answered(w, o))
          => /\ pc'[w] = "returned"
             /\ call'[w].result = [next |-> "return", status |-> o.status,
                                   text |-> o.content]
             /\ call'[w].ncalls = settings.max_retries + 1
             /\ call'[w].retries = settings.max_retries
             /\ metrics'.upstream_retries_total = metrics.upstream_retries_total]_vars

\* C11 happens: a buffered POST whose three attempts were answered 503 returned the 503
C11_Witness ==
    \E w \in Workers :
        /\ pc[w] = "returned"
        /\ call[w].kind = "post_json"
        /\ call[w].ncalls = 3
        /\ call[w].latencies = 3
        /\ call[w].answer = [kind |-> "response", status |-> 503, content |-> "B2"]
        /\ call[w].result = [next |-> "return", status |-> 503, text |-> "B2"]
        /\ Total(metrics.upstream_retries_total) = 2

\* C12: a timeout or another transport error of an attempt before the last is retried,
\* not raised; on the last attempt (attempt = max_retries) a timeout raises 504
\* "Upstream timeout on <path>" and another transport error raises 502
\* "Upstream request failed on <path>".
C12_TransportFailure ==
    [][\A w \in MainWorkers, o \in Outcomes :
          (o.kind \in {"timeout", "request_error"} /\ Answered(w, o)) =>
             IF call[w].attempt < settings.max_retries
             THEN /\ pc'[w] = "sleep"
                  /\ call'[w].result = NoResult
             ELSE /\ call[w].attempt = settings.max_retries
                  /\ pc'[w] = "returned"
                  /\ call'[w].result =
                        IF o.kind = "timeout"
                        THEN [next |-> "raise", status |-> 504,
                              text |-> "Upstream timeout on " \o PathText[call[w].path]]
                        ELSE [next |-> "raise", status |-> 502,
                              text |-> "Upstream request failed on "
                                       \o PathText[call[w].path]]]_vars

\* C12 happens: GET /v1/models timed out three times and raised the 504
C12_Witness ==
    \E w \in Workers :
        /\ pc[w] = "returned"
        /\ call[w].kind = "get"
        /\ call[w].attempt = 2
        /\ call[w].answer.kind = "timeout"
        /\ call[w].result = [next |-> "raise", status |-> 504,
                              text |-> "Upstream timeout on /v1/models"]

-----------------------------------------------------------------------------
(* The metrics registry on its own: its recording operations in any order *)

MetricRoutes == {ModelsPath, EmbeddingsPath}
MetricMethods == {"GET", "POST"}
MetricStatuses == {200, 500}
MetricLatencies == {0, 3}

\* one recording operation of MetricsRegistry, which takes the registry from m to m1
Record(m1) ==
    /\ hist.records < MaxRecords
    /\ metrics' = m1
    /\ hist' = [hist EXCEPT !.records = @ + 1]
    /\ UNCHANGED <<config, buckets, now, pc, req, ctx, call, handles, resp>>

RecordRequest(route, method, status, latency_s) ==
    Record(record_request(metrics, route, method, status, latency_s))

RecordUpstreamRetry(route) == Record(record_upstream_retry(metrics, route))

RecordUpstreamLatency(route, latency_s) ==
    Record(record_upstream_latency(metrics, route, latency_s))

RecordUpstreamError(route) == Record(record_upstream_error(metrics, route))

RecordRateLimited == Record(record_rate_limited(metrics))

InitMetrics == InitWith({2}, {[k \in {} |-> ""]}, {[k \in {} |-> ""]})

NextMetrics ==
    \/ \E r \in MetricRoutes, m \in MetricMethods, s \in MetricStatuses,
          l \in MetricLatencies : RecordRequest(r, m, s, l)
    \/ \E r \in MetricRoutes : RecordUpstreamRetry(r)
    \/ \E r \in MetricRoutes, l \in MetricLatencies : RecordUpstreamLatency(r, l)
    \/ \E r \in MetricRoutes : RecordUpstreamError(r)
    \/ RecordRateLimited

SpecMetrics == InitMetrics /\ [][NextMetrics]_vars

\* every key of counter map c is a key of c1, with a count that is not smaller
NotDecreased(c, c1) ==
    \A k \in DOMAIN c : k \in DOMAIN c1 /\ c1[k] >= c[k]

\* C13: in every state of the registry each key of request_latency_sum is a key of
\* request_latency_count with a count that is not zero, and likewise for
\* upstream_latency_sum and upstream_latency_count; no recording operation makes
\* requests_total, a latency count, upstream_retries_total, upstream_errors_total or
\* rate_limited_total smaller.
C13_MetricsWellFormed ==
    /\ [](\A k \in DOMAIN metrics.request_latency_sum :
              /\ k \in DOMAIN metrics.request_latency_count
              /\ metrics.request_latency_count[k] >= 1)
    /\ [](\A k \in DOMAIN metrics.upstream_latency_sum :
              /\ k \in DOMAIN metrics.upstream_latency_count
              /\ metrics.upstream_latency_count[k] >= 1)
    /\ [][/\ NotDecreased(metrics.requests_total, metrics'.requests_total)
          /\ NotDecreased(metrics.request_latency_count, metrics'.request_latency_count)
          /\ NotDecreased(metrics.upstream_latency_count, metrics'.upstream_latency_count)
          /\ NotDecreased(metrics.upstream_retries_total, metrics'.upstream_retries_total)
          /\ NotDecreased(metrics.upstream_errors_total, metrics'.upstream_errors_total)
          /\ metrics'.rate_limited_total >= metrics.rate_limited_total]_vars

\* C13 happens: a latency of zero was recorded for a request and for an upstream attempt,
\* so both sums hold a key with sum 0 and count 1, next to the other counters
C13_Witness ==
    /\ hist.records = 4
    /\ metrics.request_latency_sum = (<<ModelsPath, "GET">> :> 0)
    /\ metrics.request_latency_count = (<<ModelsPath, "GET">> :> 1)
    /\ metrics.upstream_latency_sum = (ModelsPath :> 0)
    /\ metrics.upstream_latency_count = (ModelsPath :> 1)
    /\ metrics.upstream_errors_total = (ModelsPath :> 1)
    /\ metrics.rate_limited_total = 1

-----------------------------------------------------------------------------
(* Properties of the POST endpoints, under SpecUpstream *)

\* the bodies that violate the schema of a route: no model, no messages / prompt /
\* input, or an empty input for /v1/embeddings
Malformed(route, b) ==
    \/ b.model = None
    \/ b.content = "missing"
    \/ route = EmbeddingsPath /\ b.content = "empty"

\* the step in which the handler of a POST endpoint is entered with body b
Posted(w, b) ==
    /\ pc[w] = "call_next"
    /\ pc'[w] # "call_next"
    /\ HandlePost(w, b)

C15_ModelRouted ==
    [][\A w \in MainWorkers, b \in Bodies :
          (~Malformed(req[w].route, b) /\ Posted(w, b)) =>
             IF upstreams = [k \in {} |-> ""]
             THEN /\ pc'[w] = "attempt"
                  /\ call'[w].base_url = "http://127.0.0.1:8080"
             ELSE IF b.model[1] = "m1"
             THEN /\ pc'[w] = "attempt"
                  /\ call'[w].base_url = "http://u1"
             ELSE /\ b.model[1] = "zz"
                  /\ pc'[w] = "finalize"
                  /\ ctx'[w].out.status = 400
                  /\ ctx'[w].out.text = "Unknown model 'zz'. Available models: m1, m2"
                  /\ call'[w] = NoCall
                  /\ handles'[w] = NoHandles
                  /\ hist'.upstream_calls = hist.upstream_calls]_vars

\* C15 happens: with the map {m1, m2}, a POST for model zz was answered 400 with the
\* list of models and no upstream was contacted
C15_Witness ==
    \E w \in Workers :
        /\ upstreams = ModelMap
        /\ pc[w] = "done"
        /\ resp[w].status = 400
        /\ resp[w].text = "Unknown model 'zz'. Available models: m1, m2"
        /\ hist.upstream_calls = 0

-----------------------------------------------------------------------------
(* Properties of the streaming upstream call, under SpecUpstream *)

\* C16: in _post_stream_with_retry, an attempt that ends without handing its response
\* to the caller (a retriable status before the last attempt, a timeout or another
\* transport error at any attempt) has its response and its client closed when the
\* backoff sleep begins and when the error is raised, so the next attempt opens its
\* client with none open; the call never has more than one client open.
C16_AttemptClosed ==
    \A w \in Workers :
        call[w].kind = "post_stream" =>
            /\ handles[w].clients <= 1
            /\ handles[w].responses <= handles[w].clients
            /\ pc[w] = "sleep" => handles[w] = [clients |-> 0, responses |-> 0]
            /\ pc[w] = "attempt" => handles[w] = [clients |-> 1, responses |-> 0]
            /\ (pc[w] = "returned" /\ call[w].result.next = "raise") =>
                  handles[w] = [clients |-> 0, responses |-> 0]

\* C16 happens: a streamed call had an attempt answered 503 and retried, and its third
\* attempt is in flight with one client open
C16_Witness ==
    \E w \in Workers :
        /\ call[w].kind = "post_stream"
        /\ pc[w] = "attempt"
        /\ call[w].attempt = 2
        /\ call[w].latencies >= 1
        /\ handles[w] = [clients |-> 1, responses |-> 0]

\* C17: once event_stream is being iterated, every way out of it (the chunks end, reading
\* a chunk fails, closing the response raises, the client disconnects) leaves both the
\* response and the client of the stream closed.
C17_StreamClosesBoth ==
    [][\A w \in Workers :
          (pc[w] = "streaming" /\ pc'[w] # "streaming") =>
             handles'[w] = [clients |-> 0, responses |-> 0]]_vars

\* C18: every attempt of a *_with_retry call records an upstream latency for its path,
\* whether it ended with a response, a timeout or another transport error: when the
\* call ends, upstream_latency_count of its path has grown by the number of attempts.
C18_EveryAttemptTimed ==
    \A w \in Workers :
        (pc[w] = "returned" /\ call[w].answer.kind # "unexpected") =>
            call[w].latencies = call[w].ncalls

-----------------------------------------------------------------------------
(* More properties of the rate limiter, under SpecLimiter *)

\* the step in which check(c) is called on its own
Checked(c) ==
    /\ Len(hist'.checks) = Len(hist.checks) + 1
    /\ LimiterCheck(c)

\* the timestamps of bucket b that are not older than 60 s at time t
Survivors(b, t) ==
    LET InWindow(ts) == ts >= t - 60 * TicksPerSecond IN SelectSeq(b, InWindow)

\* C19: check(c) leaves the bucket of every other client as it was; when it refuses, the
\* bucket of c holds the timestamps that survived pruning and no new one.
C19_RefusalDoesNotAppend ==
    [][\A c \in LimiterClients :
          Checked(c) =>
             LET e == hist'.checks[Len(hist'.checks)]
                 old == IF c \in DOMAIN buckets THEN buckets[c] ELSE <<>>
             IN
             /\ e.client_id = c
             /\ DOMAIN buckets' = DOMAIN buckets \cup {c}
             /\ \A d \in DOMAIN buckets \ {c} : buckets'[d] = buckets[d]
             /\ ~e.decision.allowed => buckets'[c] = Survivors(old, now)
             /\ e.decision.allowed => buckets'[c] = Append(Survivors(old, now), now)]_vars

\* C19 happens: client-1 was refused twice, 59 s apart, while client-2 holds a
\* timestamp, and the bucket of client-1 still holds its first timestamp alone
C19_Witness ==
    /\ limit_per_minute = 1
    /\ Len(hist.checks) = 4
    /\ hist.checks[1].client_id = "client-1" /\ hist.checks[1].decision.allowed
    /\ hist.checks[2].client_id = "client-2" /\ hist.checks[2].decision.allowed
    /\ hist.checks[3].client_id = "client-1" /\ ~hist.checks[3].decision.allowed
    /\ hist.checks[4].client_id = "client-1" /\ ~hist.checks[4].decision.allowed
    /\ hist.checks[4].t - hist.checks[3].t = 59 * TicksPerSecond
    /\ buckets["client-1"] = <<hist.checks[1].t>>
    /\ buckets["client-2"] = <<hist.checks[2].t>>

\* a / b rounded up, for a >= 0 and b > 0
CeilDiv(a, b) == (a + b - 1) \div b

\* C20: a refusal at time t, with `oldest` the first timestamp the bucket retains, has
\* remaining = 0 and retry_after_s = max(1, ceil(60 - (t - oldest))).
C20_RetryAfterCeil ==
    Len(hist.checks) > 0 =>
        LET e == hist.checks[Len(hist.checks)]
            oldest == buckets[e.client_id][1]
            left == 60 * TicksPerSecond - (e.t - oldest)
        IN
        ~e.decision.allowed =>
            /\ e.decision.remaining = 0
            /\ e.decision.retry_after_s =
                  IF CeilDiv(left, TicksPerSecond) >= 1
                  THEN CeilDiv(left, TicksPerSecond) ELSE 1

\* the clients that called check in the last 60 s, the call at time t included
RecentClients(t) ==
    {hist.checks[i].client_id : i \in {j \in 1..Len(hist.checks) :
                                          hist.checks[j].t >= t - 60 * TicksPerSecond}}

\* C21: right after a check at time t the bucket table holds no stale entry: every entry
\* holds a timestamp of the last 60 s, so the table has at most as many entries as there
\* are clients with a request in the last 60 s.
C21_StaleBucketsEvicted ==
    (Len(hist.checks) > 0 /\ hist.checks[Len(hist.checks)].t = now) =>
        /\ \A c \in DOMAIN buckets :
              \E i \in 1..Len(buckets[c]) : buckets[c][i] >= now - 60 * TicksPerSecond
        /\ Cardinality(DOMAIN buckets) <= Cardinality(RecentClients(now))

-----------------------------------------------------------------------------
(* Two request tasks on the event loop: each runs from one await to the next without *)
(* interruption, and the other task runs while it is suspended in call_next or in an *)
(* upstream attempt. The clock advances at any point.                                *)

ConcurrentRequests == {r \in Requests :
                          /\ r.method = "POST" /\ r.route = EmbeddingsPath
                          /\ r.authorization \in {Some(<<"Bearer", " ", "k1">>),
                                                  Some(<<"Bearer", " ", "k2">>)}
                          /\ r.x_request_id = None}
ConcurrentBodies == {b \in PipelineBodies : ValidBody(EmbeddingsPath, b)}
ConcurrentOutcomes == {o \in Outcomes : o.kind = "response" /\ o.status = 200
                                         /\ o.content = "B1"}

InitConcurrent == InitWith(RpmChoices, {KeyTable}, {[k \in {} |-> ""]})

NextConcurrent ==
    \/ \E w \in Workers, r \in ConcurrentRequests : Begin(w, r, MaxArrivals)
    \/ \E w \in Workers, b \in ConcurrentBodies : HandlePost(w, b)
    \/ \E w \in Workers, o \in ConcurrentOutcomes : Attempt(w, o)
    \/ \E w \in Workers : Resume(w)
    \/ \E w \in Workers : Finalize(w)
    \/ Advance(WindowTicks - 2, MaxWaits)

SpecConcurrent == InitConcurrent /\ [][NextConcurrent]_vars

\* the calls of check before call j that were allowed for the client of call j and whose
\* timestamps lie in the 60 s that end with call j, call j included
InWindowOf(j) ==
    {i \in 1..j : /\ hist.checks[i].client_id = hist.checks[j].client_id
                  /\ hist.checks[i].decision.allowed
                  /\ hist.checks[i].t >= hist.checks[j].t - 60 * TicksPerSecond}

\* in every 60 s window that ends with an allowed call of a client, at most N calls of
\* that client were allowed
AtMostNAllowed ==
    \A j \in 1..Len(hist.checks) :
        hist.checks[j].decision.allowed => Cardinality(InWindowOf(j)) <= limit_per_minute

\* C22 (as stated): with request tasks interleaving, at most N calls of a client are
\* allowed in any 60 s window, and no two allowed calls of a client within 60 s of each
\* other return the same remaining value.
C22_DistinctRemaining ==
    /\ AtMostNAllowed
    /\ \A j \in 1..Len(hist.checks) : \A i \in InWindowOf(j) \ {j} :
          hist.checks[j].decision.allowed =>
             hist.checks[i].decision.remaining # hist.checks[j].decision.remaining

\* C22 (as the code has it): with request tasks interleaving, at most N calls of a client
\* are allowed in any 60 s window, and every allowed call returns N minus the number of
\* calls allowed for its client in the 60 s that end with it; two allowed calls within
\* 60 s of each other return the same remaining value only when a timestamp that the
\* earlier call counted had left the window by the later call.
C22_CheckAtomic ==
    /\ AtMostNAllowed
    /\ \A j \in 1..Len(hist.checks) :
          hist.checks[j].decision.allowed =>
             /\ hist.checks[j].decision.remaining =
                   limit_per_minute - Cardinality(InWindowOf(j))
             /\ \A i \in InWindowOf(j) \ {j} :
                   hist.checks[i].decision.remaining = hist.checks[j].decision.remaining
                      => InWindowOf(i) \ InWindowOf(j) # {}

\* C22 happens: both request tasks are suspended in their upstream call, admitted for the
\* same client at the same instant with remaining 1 and 0, after an earlier call of that
\* client left the window
C22_Witness ==
    /\ limit_per_minute = 2
    /\ pc["w1"] = "attempt" /\ pc["w2"] = "attempt"
    /\ Len(hist.checks) = 3
    /\ \A i \in 1..3 : hist.checks[i].client_id = "client-1" /\ hist.checks[i].decision.allowed
    /\ hist.checks[2].t = hist.checks[3].t
    /\ hist.checks[2].t > hist.checks[1].t + 60 * TicksPerSecond
    /\ hist.checks[2].decision.remaining = 1
    /\ hist.checks[3].decision.remaining = 0
    /\ ctx["w1"].rate_remaining # ctx["w2"].rate_remaining

-----------------------------------------------------------------------------
(* The registry under two request tasks, one of which may serve GET /metrics *)

ScrapeRequests == {r \in Requests :
                      /\ \/ /\ r.method = "POST" /\ r.route = EmbeddingsPath
                            /\ r.authorization = Some(<<"Bearer", " ", "k1">>)
                         \/ /\ r.method = "GET" /\ r.route = <<"metrics">>
                            /\ r.authorization = None
                      /\ r.x_request_id = None}

InitScrape == InitWith({1}, {KeyTable}, {[k \in {} |-> ""]})

NextScrape ==
    \/ \E w \in Workers, r \in ScrapeRequests : Begin(w, r, MaxArrivals)
    \/ \E w \in Workers : HandleInfra(w)
    \/ \E w \in Workers, b \in ConcurrentBodies : HandlePost(w, b)
    \/ \E w \in Workers, o \in ConcurrentOutcomes : Attempt(w, o)
    \/ \E w \in Workers : Resume(w)
    \/ \E w \in Workers : Finalize(w)
    \/ Advance(1, MaxWaits)

SpecScrape == InitScrape /\ [][NextScrape]_vars

\* the sample lines of one family in a rendered exposition
SamplesOf(lines, family) ==
    LET Is(ln) == ln.kind = "sample" /\ ln.family = family IN SelectSeq(lines, Is)

\* the label tuples of the samples of one family
LabelsOf(lines, family) ==
    {SamplesOf(lines, family)[i].labels : i \in 1..Len(SamplesOf(lines, family))}

RECURSIVE SumValues(_)
SumValues(samples) ==
    IF samples = <<>> THEN 0 ELSE samples[1].value + SumValues(Tail(samples))

\* a rendered exposition shows no half-applied record_request or
\* record_upstream_latency: the request count of every (route, method) is the sum of
\* its requests_total samples, and every sum has its count
RenderWhole(lines) ==
    /\ \A i \in 1..Len(SamplesOf(lines, "proxy_request_latency_seconds_count")) :
          LET c == SamplesOf(lines, "proxy_request_latency_seconds_count")[i]
              Same(ln) == ln.labels[1] = c.labels[1] /\ ln.labels[2] = c.labels[2]
          IN c.value = SumValues(SelectSeq(SamplesOf(lines, "proxy_requests_total"), Same))
    /\ \A i \in 1..Len(SamplesOf(lines, "proxy_requests_total")) :
          LET ln == SamplesOf(lines, "proxy_requests_total")[i] IN
          <<ln.labels[1], ln.labels[2]>>
             \in LabelsOf(lines, "proxy_request_latency_seconds_count")
    /\ LabelsOf(lines, "proxy_request_latency_seconds_sum")
          = LabelsOf(lines, "proxy_request_latency_seconds_count")
    /\ LabelsOf(lines, "proxy_upstream_latency_seconds_sum")
          = LabelsOf(lines, "proxy_upstream_latency_seconds_count")

\* the calls of check that refused, so far
Refusals == {i \in 1..Len(hist.checks) : ~hist.checks[i].decision.allowed}

\* C23: with request tasks interleaving, no increment is lost (requests_total adds up to
\* the requests answered, rate_limited_total to the refusals, upstream_latency_count to
\* the upstream attempts answered) and every exposition served by GET /metrics shows
\* whole record operations only.
C23_RegistryConsistent ==
    /\ Total(metrics.requests_total) = hist.completed
    /\ Total(metrics.request_latency_count) = hist.completed
    /\ metrics.rate_limited_total = Cardinality(Refusals)
    /\ Total(metrics.upstream_latency_count) = hist.upstream_calls
    /\ \A w \in Workers :
          /\ ctx[w].out.body = "metrics" => RenderWhole(ctx[w].out.data)
          /\ resp[w].body = "metrics" => RenderWhole(resp[w].data)

\* C23 happens: GET /metrics was served while the other task's request was between its
\* upstream attempt and its finalization: the exposition shows the upstream latency of
\* /v1/embeddings and no request of that route yet, with one refusal counted
C23_Witness ==
    /\ resp["w1"].body = "metrics"
    /\ pc["w2"] \in {"returned", "finalize"}
    /\ <<"/v1/embeddings">> \in LabelsOf(resp["w1"].data, "proxy_upstream_latency_seconds_count")
    /\ \A l \in LabelsOf(resp["w1"].data, "proxy_requests_total") : l[3] = "429"
    /\ SumValues(SamplesOf(resp["w1"].data, "proxy_rate_limited_total")) = 1
    /\ metrics.rate_limited_total = 1

-----------------------------------------------------------------------------
(* GET /v1/models with a model map, under SpecUpstream *)

\* the set of ids in a list of model entries
IdsOf(data) == {data[i].id : i \in 1..Len(data)}

\* the entries are in the order of model ids, one entry per id
InModelOrder(data) ==
    \A i, j \in 1..Len(data) :
        i < j => IndexOf(ModelOrder, data[i].id) < IndexOf(ModelOrder, data[j].id)

\* the first entry of `data` with the id `id`
FirstWithId(data, id) == data[CHOOSE i \in 1..Len(data) :
                                  /\ data[i].id = id
                                  /\ \A j \in 1..(i - 1) : data[j].id # id]

\* the step in which the call to the upstream of the i-th configured model has ended
\* (returned a status, or raised) and list_models goes on
ListStep(w) ==
    /\ pc[w] = "returned"
    /\ ctx[w].models_i > 0
    /\ pc'[w] \in {"attempt", "finalize"}

\* C24: with a model map, GET /v1/models calls the configured upstreams in the order of
\* their model ids; an upstream whose call raised or returned a status >= 400 adds
\* nothing, any other adds entries under its configured model only; the response is 200
\* with one entry per model that was added, the first one collected, in model order.
C24_ModelsMerged ==
    /\ [](\A w \in MainWorkers :
             (ctx[w].models_i > 0 /\ pc[w] \in {"attempt", "sleep", "returned"}) =>
                /\ call[w].kind = "get" /\ call[w].path = ModelsPath
                /\ call[w].base_url = configured_upstreams(upstreams)[ctx[w].models_i][2]
                /\ IdsOf(ctx[w].data) \subseteq
                      {configured_upstreams(upstreams)[k][1] : k \in 1..(ctx[w].models_i - 1)})
    /\ [][\A w \in MainWorkers :
             ListStep(w) =>
                LET ups == configured_upstreams(upstreams)
                    i == ctx[w].models_i
                    res == call[w].result
                    succeeded == res.next = "return" /\ res.status < 400
                    data == ctx'[w].data
                    out == ctx'[w].out
                IN
                /\ IdsOf(data) = IdsOf(ctx[w].data) \cup (IF succeeded THEN {ups[i][1]} ELSE {})
                /\ ~succeeded => data = ctx[w].data
                /\ i < Len(ups) => pc'[w] = "attempt" /\ ctx'[w].models_i = i + 1
                /\ i = Len(ups) =>
                      /\ pc'[w] = "finalize"
                      /\ out.kind = "response" /\ out.status = 200 /\ out.body = "models"
                      /\ IdsOf(out.data) = IdsOf(data)
                      /\ InModelOrder(out.data)
                      /\ \A k \in 1..Len(out.data) :
                            out.data[k] = FirstWithId(data, out.data[k].id)]_vars

\* C24 happens: the upstream of m1 was refused with 400 or failed, the upstream of m2
\* listed two models, and the response is 200 with the single entry m2, the first listed
C24_Witness ==
    /\ pc["w1"] = "done"
    /\ req["w1"].route = ModelsPath
    /\ upstreams = ModelMap
    /\ resp["w1"].status = 200 /\ resp["w1"].body = "models"
    /\ Len(resp["w1"].data) = 1
    /\ resp["w1"].data[1].id = "m2"
    /\ resp["w1"].data[1].upstream_model_id = "up-a"

\* C24 happens also when every upstream failed: the response is 200 with no entry
C24_WitnessAllFailed ==
    /\ pc["w1"] = "done"
    /\ req["w1"].route = ModelsPath
    /\ upstreams = ModelMap
    /\ resp["w1"].status = 200 /\ resp["w1"].body = "models"
    /\ resp["w1"].data = <<>>
    /\ metrics.upstream_errors_total # EmptyMap

-----------------------------------------------------------------------------
(* Errors that reach request_middleware, under SpecUpstream *)

\* the step in which request_middleware takes up the outcome of call_next
Finalizes(w) ==
    /\ pc[w] = "finalize"
    /\ pc'[w] \in {"done", "stream_pending"}

\* d1 is d with one more under key k and nothing else changed
OneMore(d, d1, k) ==
    /\ DOMAIN d1 = DOMAIN d \cup {k}
    /\ d1[k] = Get0(d, k) + 1
    /\ \A x \in DOMAIN d : x # k => d1[x] = d[x]

\* C25: an exception that is not an HTTPException, raised under call_next, becomes the
\* response 500 "Internal server error" with the x-request-id of the request; the step
\* adds one to upstream_errors_total[route] and one to requests_total[(route, method, 500)]
\* and to no other counter of these two families.
C25_UnexpectedError ==
    [][\A w \in MainWorkers :
          (Finalizes(w) /\ ctx[w].out.kind = "exception") =>
             /\ resp'[w].status = 500
             /\ resp'[w].body = "error"
             /\ resp'[w].text = "Internal server error"
             /\ resp'[w].x_request_id = Some(ctx[w].request_id)
             /\ OneMore(metrics.upstream_errors_total, metrics'.upstream_errors_total,
                        req[w].route)
             /\ OneMore(metrics.requests_total, metrics'.requests_total,
                        <<req[w].route, req[w].method, 500>>)
             /\ OneMore(metrics.request_latency_count, metrics'.request_latency_count,
                        <<req[w].route, req[w].method>>)
             /\ hist'.completed = hist.completed + 1]_vars

\* C25 happens: POST /v1/chat/completions timed out once upstream, then its second
\* attempt raised an unexpected exception: the response is 500, upstream_errors_total
\* holds the timeout and the unexpected error, requests_total holds the one 500
C25_Witness ==
    /\ pc["w1"] = "done"
    /\ req["w1"].route = ChatPath
    /\ resp["w1"].status = 500
    /\ resp["w1"].text = "Internal server error"
    /\ resp["w1"].x_request_id = Some(<<"a">>)
    /\ metrics.upstream_errors_total = (ChatPath :> 2)
    /\ metrics.upstream_retries_total = (ChatPath :> 1)
    /\ metrics.requests_total = (<<ChatPath, "POST", 500>> :> 1)

\* the handler of the request of task w ended by raising an HTTPException: the one of
\* ModelRouter.upstream_for_model (no upstream call was made), or the one of the
\* upstream client after its last attempt
RaisedInHandler(w) ==
    \/ call[w].result.next = "raise"
    \/ call[w].kind = "none" /\ ctx[w].out.kind = "response" /\ ctx[w].out.status = 400

\* C26: an HTTPException (status, detail) raised inside an endpoint handler reaches the
\* client with that status and the body {"error": {"message": detail}}, and is counted
\* in requests_total under that status.
C26_DomainErrorBody ==
    [][\A w \in MainWorkers :
          (Finalizes(w) /\ RaisedInHandler(w)) =>
             /\ resp'[w].status = ctx[w].out.status
             /\ resp'[w].text = ctx[w].out.text
             /\ resp'[w].body = "error"
             /\ OneMore(metrics.requests_total, metrics'.requests_total,
                        <<req[w].route, req[w].method, ctx[w].out.status>>)]_vars

-----------------------------------------------------------------------------
(* The bucket a check leaves behind, under SpecLimiter *)

\* C27: right after check(c) at time t the bucket of c holds at most N = max(1, rpm)
\* timestamps, in non-decreasing order, none older than t - 60 s, and after an allowed
\* check its last timestamp is t.
C27_BucketShape ==
    (Len(hist.checks) > 0 /\ hist.checks[Len(hist.checks)].t = now) =>
        LET e == hist.checks[Len(hist.checks)]
            b == buckets[e.client_id]
            N == IF settings.rate_limit_rpm > 1 THEN settings.rate_limit_rpm ELSE 1
        IN
        /\ Len(b) <= N
        /\ \A i \in 1..Len(b) : b[i] >= e.t - 60 * TicksPerSecond /\ b[i] <= e.t
        /\ \A i \in 1..(Len(b) - 1) : b[i] <= b[i + 1]
        /\ e.decision.allowed => b # <<>> /\ b[Len(b)] = e.t
        /\ ~e.decision.allowed => Len(b) = N

\* C27 happens: with N = 3, a client was allowed twice within a second, came back more
\* than 60 s later, when both timestamps were stale, and was allowed twice more: the
\* bucket holds the last two timestamps only
C27_Witness ==
    /\ settings.rate_limit_rpm = 3
    /\ Len(hist.checks) = 4
    /\ \A i \in 1..4 : hist.checks[i].client_id = "client-1" /\ hist.checks[i].decision.allowed
    /\ hist.checks[2].t = hist.checks[1].t + 1
    /\ hist.checks[3].t > hist.checks[2].t + 60 * TicksPerSecond
    /\ hist.checks[4].t = now
    /\ buckets["client-1"] = <<hist.checks[3].t, hist.checks[4].t>>

-----------------------------------------------------------------------------
(* Authentication before rate limiting, under Spec *)

\* the calls of check before call j that were allowed for the client of call j within
\* the 60 s before it
AdmittedBefore(j) ==
    {i \in 1..(j - 1) : /\ hist.checks[i].client_id = hist.checks[j].client_id
                        /\ hist.checks[i].decision.allowed
                        /\ hist.checks[i].t >= hist.checks[j].t - 60 * TicksPerSecond}

\* C28: with a key configured, a request of the authenticated class that fails
\* authentication is answered 401 without a call of check: every bucket and
\* rate_limited_total are as before. A refusal of the limiter therefore always follows N
\* requests admitted for the same client in the last 60 s.
C28_UnauthorizedCostsNothing ==
    /\ [](\A j \in 1..Len(hist.checks) :
             ~hist.checks[j].decision.allowed =>
                Cardinality(AdmittedBefore(j)) = limit_per_minute)
    /\ [][\A w \in MainWorkers, a \in BadAuthorization :
             (/\ auth_keys # [k \in {} |-> ""]
              /\ Arrives(w, a, AuthClassLines))
             => /\ resp'[w].status = 401
                /\ buckets' = buckets
                /\ hist'.checks = hist.checks
                /\ metrics'.rate_limited_total = metrics.rate_limited_total]_vars

\* C28 happens: with a budget of one request per minute, a request was answered 401 and
\* the next request, with a key, was admitted with that one unit of budget
C28_Witness ==
    /\ auth_keys = KeyTable
    /\ limit_per_minute = 1
    /\ hist.accepted = 2 /\ hist.completed = 1
    /\ pc["w1"] = "call_next"
    /\ now = 0
    /\ Total(metrics.requests_total) = 1
    /\ \A k \in DOMAIN metrics.requests_total : k[3] = 401
    /\ Len(hist.checks) = 1
    /\ hist.checks[1].decision.allowed /\ hist.checks[1].decision.remaining = 0
    /\ DOMAIN buckets = {hist.checks[1].client_id}

-----------------------------------------------------------------------------
(* Whether the retry-after of a refusal is long enough, under SpecLimiter *)

\* call j is the first call of check for its client after call i
NextOfClient(i, j) ==
    /\ i < j
    /\ hist.checks[j].client_id = hist.checks[i].client_id
    /\ \A k \in (i + 1)..(j - 1) : hist.checks[k].client_id # hist.checks[i].client_id

\* C29: when check(c) refuses at time t with retry_after_s = r and the next check of c is
\* made at t + r, that check is allowed.
C29_RetryAfterSuffices ==
    \A i, j \in 1..Len(hist.checks) :
        (/\ NextOfClient(i, j)
         /\ ~hist.checks[i].decision.allowed
         /\ hist.checks[j].t = hist.checks[i].t
                                  + hist.checks[i].decision.retry_after_s * TicksPerSecond)
        => hist.checks[j].decision.allowed

====
